---- MODULE Spec2Model ----
(***************************************************************************)
(* Simulation kernel of sanguo-190: the turn/calendar state machine        *)
(* (systems/turnSystem), the faction AI (systems/aiSystem), the turn       *)
(* orchestrator (systems/gameLoop) and the store reducer (store/gameState).*)
(*                                                                         *)
(* Real-valued formulas of the source are kept exact by scaling both sides *)
(* of every comparison to integers (the scale is noted at each operator).  *)
(***************************************************************************)
EXTENDS Integers, Sequences, FiniteSets, TLC

VARIABLES
    store,         \* the GameState held by the React store (App.tsx `state`)
    isProcessing,  \* GameLoopController.isProcessing
    isLoading,     \* App.tsx isLoading, driven by onLoadingChange
    pc,            \* position of the endPlayerTurn call: "idle" | "narrative"
    work,          \* currentState of the suspended endPlayerTurn call
    pending,       \* aiResult.events of the suspended call
    call,          \* observation of the last processed endPlayerTurn call
    rejected,      \* observation of the last rejected endPlayerTurn call
    rid,           \* the last reducer action dispatched by the player
    turns,         \* number of endPlayerTurn calls processed so far
    dispatches,    \* number of reducer dispatches made by the player so far
    vap,           \* observation of the last validateAPConsumption run
    fn             \* a call of one of the pure functions, and its result

vars == <<store, isProcessing, isLoading, pc, work, pending, call, rejected,
          rid, turns, dispatches, vap, fn>>

(***************************************************************************)
(* Bounds of the model                                                     *)
(***************************************************************************)
MaxTurns == 2
MaxDispatch == 2
MaxYearTurns == 12
MaxActions == 4
MaxAP == 20
MaxYear == 194
MaxAge == 16

(***************************************************************************)
(* Program constants                                                       *)
(***************************************************************************)
INITIAL_ACTION_POINTS == 3
AP_COST_DOMESTIC == 1
AP_COST_MOVEMENT == 1
AP_COST_CAMPAIGN == 2
RECRUIT_PRIORITY_TROOPS_THRESHOLD == 10000
COMMERCE_MAX == 999

ActionTypes == {"domestic", "movement", "campaign"}

\* CITY_SCALE_SCORE
CITY_SCALE_SCORE(scale) ==
    CASE scale = "small" -> 1
      [] scale = "medium" -> 2
      [] scale = "large" -> 3

\* Array.prototype.filter(x => x !== v)
RECURSIVE Without(_, _)
Without(seq, v) ==
    IF seq = <<>> THEN <<>>
    ELSE IF Head(seq) = v THEN Without(Tail(seq), v)
    ELSE <<Head(seq)>> \o Without(Tail(seq), v)

\* Math.floor(a / b) for a >= 0, b > 0
Floor(a, b) == a \div b

Min(a, b) == IF a < b THEN a ELSE b
Max(a, b) == IF a > b THEN a ELSE b

(***************************************************************************)
(* systems/turnSystem                                                      *)
(***************************************************************************)
\* every action type at the price of a domestic action
getActionPointCostFlat(actionType) == AP_COST_DOMESTIC

getActionPointCost(actionType) ==
    CASE actionType = "domestic" -> AP_COST_DOMESTIC
      [] actionType = "movement" -> AP_COST_MOVEMENT
      [] actionType = "campaign" -> AP_COST_CAMPAIGN

\* a deduction that does not compare the cost with the points left
deductActionPointsUnchecked(currentAP, actionType) ==
    LET cost == getActionPointCost(actionType) IN
    [success |-> TRUE, remainingAP |-> currentAP - cost, deducted |-> cost]

deductActionPoints(currentAP, actionType) ==
    LET cost == getActionPointCost(actionType) IN
    IF currentAP < cost
    THEN [success |-> FALSE, remainingAP |-> currentAP, deducted |-> 0]
    ELSE [success |-> TRUE, remainingAP |-> currentAP - cost, deducted |-> cost]

restoreActionPoints == INITIAL_ACTION_POINTS

\* a calendar whose year does not change after December
advanceMonthSameYear(current) ==
    [newDate |-> [year |-> current.year,
                  month |-> IF current.month + 1 > 12 THEN 1 ELSE current.month + 1],
     yearChanged |-> current.month + 1 > 12,
     isJanuary |-> (current.month + 1 > 12),
     isJuly |-> (current.month + 1 = 7)]

advanceMonth(current) ==
    LET wrap == current.month + 1 > 12
        newMonth == IF wrap THEN 1 ELSE current.month + 1
        newYear == IF wrap THEN current.year + 1 ELSE current.year
    IN [newDate |-> [year |-> newYear, month |-> newMonth],
        yearChanged |-> wrap,
        isJanuary |-> (newMonth = 1),
        isJuly |-> (newMonth = 7)]

\* the loop of validateAPConsumption from position i on
RECURSIVE APLoop(_, _, _)
APLoop(currentAP, actions, i) ==
    IF i > Len(actions) THEN [finalAP |-> currentAP, allValid |-> TRUE]
    ELSE LET result == deductActionPoints(currentAP, actions[i]) IN
         IF result.success THEN APLoop(result.remainingAP, actions, i + 1)
         ELSE [finalAP |-> currentAP, allValid |-> FALSE]

validateAPConsumption(initialAP, actions) ==
    LET r == APLoop(initialAP, actions, 1) IN
    [finalAP |-> r.finalAP, allValid |-> r.allValid /\ ~(r.finalAP < 0)]

\* an aging that does not look at isAlive
incrementGeneralAgesOfAll(generals) ==
    [id \in DOMAIN generals |-> [generals[id] EXCEPT !.age = @ + 1]]

incrementGeneralAges(generals) ==
    [id \in DOMAIN generals |->
        IF generals[id].isAlive
        THEN [generals[id] EXCEPT !.age = @ + 1]
        ELSE generals[id]]

\* governorPol of a city, -1 standing for null
governorPolOf(city, generals) ==
    IF city.governor # "none" /\ city.governor \in DOMAIN generals
    THEN generals[city.governor].attributes.pol
    ELSE -1

(***************************************************************************)
(* systems/domestic                                                        *)
(***************************************************************************)
\* politics bonus times 100: governorPol/100 + 0.5, or 0.5 for null
calculatePoliticsBonus(governorPol) ==
    IF governorPol = -1 THEN 50 ELSE governorPol + 50

\* floor((commerce*1.5 + population/1000) * bonus), numerator times 1000*100
calculateMonthlyIncome(commerce, population, governorPol) ==
    Floor((commerce * 1500 + population) * calculatePoliticsBonus(governorPol),
          100000)

\* floor((agriculture*10 + population/200) * bonus), numerator times 200*100
calculateYearlyGrain(agriculture, population, governorPol) ==
    Floor((agriculture * 2000 + population) * calculatePoliticsBonus(governorPol),
          20000)

calculateRecruitmentSoldiers(lead, cha) == lead * 10 + cha * 5

DEVELOPMENT_GOLD_COST == 100
RECRUITMENT_GOLD_PER_SOLDIER == 2
RECRUITMENT_POPULATION_PER_SOLDIER == 1
RECRUITMENT_BASE_LOYALTY_DECREASE == 5

calculateLoyaltyDecrease(cha) ==
    Max(1, RECRUITMENT_BASE_LOYALTY_DECREASE - Floor(cha, 20))

\* a recruitment that looks at the population before the gold
executeRecruitmentPopulationFirst(cityResources, executorLead, executorCha) ==
    IF cityResources.population
          < calculateRecruitmentSoldiers(executorLead, executorCha)
            * RECRUITMENT_POPULATION_PER_SOLDIER
    THEN [success |-> FALSE, goldSpent |-> 0, populationSpent |-> 0,
          soldiersGained |-> 0, loyaltyDecrease |-> 0,
          error |-> "InsufficientPopulation"]
    ELSE IF cityResources.gold
               < calculateRecruitmentSoldiers(executorLead, executorCha)
                 * RECRUITMENT_GOLD_PER_SOLDIER
    THEN [success |-> FALSE, goldSpent |-> 0, populationSpent |-> 0,
          soldiersGained |-> 0, loyaltyDecrease |-> 0,
          error |-> "InsufficientGold"]
    ELSE [success |-> TRUE,
          goldSpent |-> calculateRecruitmentSoldiers(executorLead, executorCha)
                        * RECRUITMENT_GOLD_PER_SOLDIER,
          populationSpent |-> calculateRecruitmentSoldiers(executorLead, executorCha)
                              * RECRUITMENT_POPULATION_PER_SOLDIER,
          soldiersGained |-> calculateRecruitmentSoldiers(executorLead, executorCha),
          loyaltyDecrease |-> calculateLoyaltyDecrease(executorCha),
          error |-> "none"]

\* the two error texts are rendered InsufficientGold / InsufficientPopulation,
\* an absent error "none"
executeRecruitment(cityResources, executorLead, executorCha) ==
    IF cityResources.gold
          < calculateRecruitmentSoldiers(executorLead, executorCha)
            * RECRUITMENT_GOLD_PER_SOLDIER
    THEN [success |-> FALSE, goldSpent |-> 0, populationSpent |-> 0,
          soldiersGained |-> 0, loyaltyDecrease |-> 0,
          error |-> "InsufficientGold"]
    ELSE IF cityResources.population
               < calculateRecruitmentSoldiers(executorLead, executorCha)
                 * RECRUITMENT_POPULATION_PER_SOLDIER
    THEN [success |-> FALSE, goldSpent |-> 0, populationSpent |-> 0,
          soldiersGained |-> 0, loyaltyDecrease |-> 0,
          error |-> "InsufficientPopulation"]
    ELSE [success |-> TRUE,
          goldSpent |-> calculateRecruitmentSoldiers(executorLead, executorCha)
                        * RECRUITMENT_GOLD_PER_SOLDIER,
          populationSpent |-> calculateRecruitmentSoldiers(executorLead, executorCha)
                              * RECRUITMENT_POPULATION_PER_SOLDIER,
          soldiersGained |-> calculateRecruitmentSoldiers(executorLead, executorCha),
          loyaltyDecrease |-> calculateLoyaltyDecrease(executorCha),
          error |-> "none"]

calculateDevelopmentIncrease(executorPol, randomValue) ==
    Floor(executorPol, 5) + randomValue

\* a development that does not clamp the new value
executeDevelopmentUnclamped(currentGold, currentValue, executorPol, maxValue, randomValue) ==
    IF currentGold < DEVELOPMENT_GOLD_COST
    THEN [success |-> FALSE, goldSpent |-> 0, valueIncrease |-> 0,
          newValue |-> currentValue]
    ELSE [success |-> TRUE, goldSpent |-> DEVELOPMENT_GOLD_COST,
          valueIncrease |-> calculateDevelopmentIncrease(executorPol, randomValue),
          newValue |-> currentValue
                       + calculateDevelopmentIncrease(executorPol, randomValue)]

\* lines 151-156: newValue is passed in once computed
developed(currentValue, newValue) ==
    [success |-> TRUE, goldSpent |-> DEVELOPMENT_GOLD_COST,
     valueIncrease |-> newValue - currentValue, newValue |-> newValue]

\* randomValue is the value injected or Math.floor(Math.random() * 5) + 1
executeDevelopment(currentGold, currentValue, executorPol, maxValue, randomValue) ==
    IF currentGold < DEVELOPMENT_GOLD_COST
    THEN [success |-> FALSE, goldSpent |-> 0, valueIncrease |-> 0,
          newValue |-> currentValue]
    ELSE developed(currentValue,
                   Min(currentValue
                         + calculateDevelopmentIncrease(executorPol, randomValue),
                       maxValue))

calculateMonthlyGoldIncome(gs) ==
    [cityId \in DOMAIN gs.cities |->
        calculateMonthlyIncome(gs.cities[cityId].resources.commerce,
                               gs.cities[cityId].resources.population,
                               governorPolOf(gs.cities[cityId], gs.generals))]

distributeJulyGrain(gs) ==
    [cityId \in DOMAIN gs.cities |->
        calculateYearlyGrain(gs.cities[cityId].resources.agriculture,
                             gs.cities[cityId].resources.population,
                             governorPolOf(gs.cities[cityId], gs.generals))]

\* a turn end that distributes the grain in every month
processTurnEndGrainMonthly(gs) ==
    [newDate |-> advanceMonth(gs.currentDate).newDate,
     goldIncome |-> calculateMonthlyGoldIncome(gs),
     hasGenerals |-> advanceMonth(gs.currentDate).isJanuary,
     updatedGenerals |-> IF advanceMonth(gs.currentDate).isJanuary
                         THEN incrementGeneralAges(gs.generals)
                         ELSE gs.generals,
     hasGrain |-> TRUE,
     grainIncome |-> distributeJulyGrain(gs)]

\* updatedGenerals / grainIncome are "none" when the source leaves them unset
processTurnEnd(gs) ==
    LET monthResult == advanceMonth(gs.currentDate) IN
    [newDate |-> monthResult.newDate,
     goldIncome |-> calculateMonthlyGoldIncome(gs),
     hasGenerals |-> monthResult.isJanuary,
     updatedGenerals |-> IF monthResult.isJanuary
                         THEN incrementGeneralAges(gs.generals)
                         ELSE gs.generals,
     hasGrain |-> monthResult.isJuly,
     grainIncome |-> IF monthResult.isJuly
                     THEN distributeJulyGrain(gs)
                     ELSE [cityId \in DOMAIN gs.cities |-> 0]]

(***************************************************************************)
(* systems/battle                                                          *)
(***************************************************************************)
\* attack power times 1000
calculateAttackPower(troops, war, lead) == troops * (war * 4 + lead * 6)

\* defense power times 1000
calculateDefensePower(troops, lead, int, cityDefense) ==
    troops * (lead * 8 + int * 2) + cityDefense * 1000

\* the probabilities and the random values are kept in thousandths
DUEL_TRIGGER_PROBABILITY == 50
INSTANT_KILL_PROBABILITY == 10
DUEL_WAR_DIFF_THRESHOLD == 10
INSTANT_KILL_WAR_DIFF_THRESHOLD == 20
EVEN_ODDS == 500

Abs(x) == IF x < 0 THEN -x ELSE x

checkDuel(attackerWar, defenderWar, randomValue) ==
    IF Abs(attackerWar - defenderWar) <= DUEL_WAR_DIFF_THRESHOLD
    THEN randomValue < DUEL_TRIGGER_PROBABILITY
    ELSE FALSE

\* an instant kill already possible at a difference of exactly the threshold
checkInstantKillFromThreshold(attackerWar, defenderWar, randomValue) ==
    IF Abs(attackerWar - defenderWar) >= INSTANT_KILL_WAR_DIFF_THRESHOLD
    THEN randomValue < INSTANT_KILL_PROBABILITY
    ELSE FALSE

checkInstantKill(attackerWar, defenderWar, randomValue) ==
    IF Abs(attackerWar - defenderWar) > INSTANT_KILL_WAR_DIFF_THRESHOLD
    THEN randomValue < INSTANT_KILL_PROBABILITY
    ELSE FALSE

determineDuelWinner(attackerWar, defenderWar, attackerId, defenderId, randomValue) ==
    IF attackerWar > defenderWar THEN attackerId
    ELSE IF defenderWar > attackerWar THEN defenderId
    ELSE IF randomValue < EVEN_ODDS THEN attackerId ELSE defenderId

determineInstantKillVictim(attackerWar, defenderWar, attackerId, defenderId) ==
    IF attackerWar > defenderWar THEN defenderId ELSE attackerId

\* the winner of an instant kill is the one who is not its victim
instantKillWinner(victim, attackerId, defenderId) ==
    IF victim = attackerId THEN defenderId ELSE attackerId

executeDuelCheck(attackerWar, defenderWar, attackerId, defenderId, duelRandom, instantKillRandom, winnerRandom) ==
    IF checkInstantKill(attackerWar, defenderWar, instantKillRandom)
    THEN [triggered |-> TRUE, instantKill |-> TRUE,
          winner |-> instantKillWinner(
                        determineInstantKillVictim(attackerWar, defenderWar,
                                                   attackerId, defenderId),
                        attackerId, defenderId)]
    ELSE IF checkDuel(attackerWar, defenderWar, duelRandom)
    THEN [triggered |-> TRUE, instantKill |-> FALSE,
          winner |-> determineDuelWinner(attackerWar, defenderWar, attackerId,
                                         defenderId, winnerRandom)]
    ELSE [triggered |-> FALSE, instantKill |-> FALSE]

(***************************************************************************)
(* Exact comparison of the source's real-valued quantities                 *)
(***************************************************************************)
\* sign of a/b - c/d for a, c >= 0 and b, d > 0 (no product is formed)
RECURSIVE CmpFrac(_, _, _, _)
CmpFrac(a, b, c, d) ==
    LET qa == a \div b
        qc == c \div d
        ra == a % b
        rc == c % d
    IN IF qa # qc THEN (IF qa > qc THEN 1 ELSE -1)
       ELSE IF ra = 0 /\ rc = 0 THEN 0
       ELSE IF ra = 0 THEN -1
       ELSE IF rc = 0 THEN 1
       ELSE CmpFrac(d, rc, b, ra)

\* <<q, r>> with m * n = q * d + r and 0 <= r < d
RECURSIVE MulDiv(_, _, _)
MulDiv(m, n, d) ==
    IF m = 0 THEN <<0, 0>>
    ELSE LET h == MulDiv(m \div 2, n, d)
             t == 2 * h[2] + (m % 2) * n
         IN <<2 * h[1] + (t \div d), t % d>>

(***************************************************************************)
(* systems/aiSystem: evaluation                                            *)
(***************************************************************************)
\* faction.diplomacy[other], "undefined" for a missing key
diplomacyOf(faction, other) ==
    IF other \in DOMAIN faction.diplomacy THEN faction.diplomacy[other]
    ELSE "undefined"

RECURSIVE calculateTroopsOf(_, _)
calculateTroopsOf(ids, generals) ==
    IF ids = <<>> THEN 0
    ELSE (IF Head(ids) \in DOMAIN generals /\ generals[Head(ids)].isAlive
          THEN generals[Head(ids)].troops ELSE 0)
         + calculateTroopsOf(Tail(ids), generals)

calculateCityTroops(city, generals) ==
    calculateTroopsOf(city.stationedGenerals, generals)

\* war*0.4 + lead*0.6, times 10
generalPower(general) == general.attributes.war * 4 + general.attributes.lead * 6

\* the scan of getStrongestGeneral; strongest is a general id or "none"
RECURSIVE strongestScan(_, _, _, _)
strongestScan(ids, generals, strongest, maxPower) ==
    IF ids = <<>> THEN strongest
    ELSE LET id == Head(ids) IN
         IF /\ id \in DOMAIN generals
            /\ generals[id].isAlive
            /\ generals[id].troops > 0
            /\ generalPower(generals[id]) > maxPower
         THEN strongestScan(Tail(ids), generals, id, generalPower(generals[id]))
         ELSE strongestScan(Tail(ids), generals, strongest, maxPower)

getStrongestGeneral(city, generals) ==
    strongestScan(city.stationedGenerals, generals, "none", -10)

RECURSIVE bestPoliticsScan(_, _, _, _)
bestPoliticsScan(ids, generals, best, maxPol) ==
    IF ids = <<>> THEN best
    ELSE LET id == Head(ids) IN
         IF /\ id \in DOMAIN generals
            /\ generals[id].isAlive
            /\ generals[id].attributes.pol > maxPol
         THEN bestPoliticsScan(Tail(ids), generals, id, generals[id].attributes.pol)
         ELSE bestPoliticsScan(Tail(ids), generals, best, maxPol)

getBestPoliticsGeneral(city, generals) ==
    bestPoliticsScan(city.stationedGenerals, generals, "none", -1)

\* stable insertion into a list sorted by threatScore, descending
RECURSIVE insertThreat(_, _)
insertThreat(sorted, t) ==
    IF sorted = <<>> THEN <<t>>
    ELSE IF Head(sorted).threatScore >= t.threatScore
         THEN <<Head(sorted)>> \o insertThreat(Tail(sorted), t)
         ELSE <<t>> \o sorted

\* the threats left in the order of city.connectedCities
sortThreatsSkipped(threats, acc) == acc \o threats

RECURSIVE sortThreats(_, _)
sortThreats(threats, acc) ==
    IF threats = <<>> THEN acc
    ELSE sortThreats(Tail(threats), insertThreat(acc, Head(threats)))

\* the loop of evaluateThreat over city.connectedCities; threatScore times 1000
RECURSIVE threatScan(_, _, _)
threatScan(connected, myFaction, gs) ==
    IF connected = <<>> THEN <<>>
    ELSE LET connectedCityId == Head(connected)
             rest == threatScan(Tail(connected), myFaction, gs)
         IN
         IF connectedCityId \notin DOMAIN gs.cities THEN rest
         ELSE LET connectedCity == gs.cities[connectedCityId]
                  enemyTroops == calculateCityTroops(connectedCity, gs.generals)
              IN
              IF \/ connectedCity.faction \notin DOMAIN gs.factions
                 \/ myFaction \notin DOMAIN gs.factions
              THEN rest
              ELSE IF /\ diplomacyOf(gs.factions[myFaction], connectedCity.faction) # "hostile"
                      /\ connectedCity.faction # myFaction
              THEN rest
              ELSE IF connectedCity.faction = myFaction THEN rest
              ELSE IF enemyTroops <= 0 THEN rest
              ELSE <<[factionId |-> connectedCity.faction,
                      cityId |-> connectedCityId,
                      troops |-> enemyTroops,
                      distance |-> 1,
                      threatScore |-> enemyTroops + 2000]>> \o rest

evaluateThreat(cityId, gs) ==
    IF cityId \notin DOMAIN gs.cities THEN <<>>
    ELSE sortThreats(threatScan(gs.cities[cityId].connectedCities,
                                gs.cities[cityId].faction, gs), <<>>)

RECURSIVE sumThreatTroops(_)
sumThreatTroops(threats) ==
    IF threats = <<>> THEN 0
    ELSE Head(threats).troops + sumThreatTroops(Tail(threats))

shouldRecruit(cityId, gs) ==
    IF cityId \notin DOMAIN gs.cities THEN FALSE
    ELSE LET currentTroops == calculateCityTroops(gs.cities[cityId], gs.generals)
             totalThreat == sumThreatTroops(evaluateThreat(cityId, gs))
         IN \/ currentTroops < RECRUIT_PRIORITY_TROOPS_THRESHOLD
            \/ totalThreat * 2 > currentTroops * 3

\* successProbability as a fraction <<n, d>>:
\* min(0.95, max(0.05, (attack / defense) / 2)), with ratio 10 for defense 0
successProbabilityOf(attackPower, defensePower) ==
    LET half == IF defensePower > 0 THEN <<attackPower, 2 * defensePower>>
                ELSE <<10, 2>>
    IN IF CmpFrac(half[1], half[2], 5, 100) < 0 THEN <<5, 100>>
       ELSE IF CmpFrac(half[1], half[2], 95, 100) > 0 THEN <<95, 100>>
       ELSE half

\* strategicValue times 100
strategicValueOf(targetCity) ==
    CITY_SCALE_SCORE(targetCity.scale) * 1000
    + targetCity.resources.commerce + targetCity.resources.agriculture

\* lines 248-258: the attack power of a city led by myGeneral, times 1000
attackPowerWith(myTroops, myGeneral, generals) ==
    IF myGeneral # "none"
    THEN calculateAttackPower(myTroops, generals[myGeneral].attributes.war,
                              generals[myGeneral].attributes.lead)
    ELSE 0

\* lines 261-273: the defense power of a city led by enemyGeneral, times 1000
defensePowerWith(enemyTroops, enemyGeneral, generals, defense) ==
    IF enemyGeneral # "none"
    THEN calculateDefensePower(enemyTroops, generals[enemyGeneral].attributes.lead,
                               generals[enemyGeneral].attributes.int, defense)
    ELSE defense * 1000

\* lines 286-294: score = successProbability * strategicValue is kept as
\* <<q, r, d>>, standing for (q + r/d) / 100, qr being MulDiv of the two
evaluationWith(targetCityId, successProbability, strategicValue, qr) ==
    [targetCityId |-> targetCityId,
     successProbability |-> successProbability,
     strategicValue |-> strategicValue,
     score |-> <<qr[1], qr[2], successProbability[2]>>]

evaluationOf(targetCityId, successProbability, strategicValue) ==
    evaluationWith(targetCityId, successProbability, strategicValue,
                   MulDiv(strategicValue, successProbability[1],
                          successProbability[2]))

evaluateAttackTarget(fromCity, targetCityId, gs) ==
    evaluationOf(targetCityId,
        successProbabilityOf(
            attackPowerWith(calculateCityTroops(fromCity, gs.generals),
                            getStrongestGeneral(fromCity, gs.generals),
                            gs.generals),
            defensePowerWith(calculateCityTroops(gs.cities[targetCityId], gs.generals),
                             getStrongestGeneral(gs.cities[targetCityId], gs.generals),
                             gs.generals,
                             gs.cities[targetCityId].resources.defense)),
        strategicValueOf(gs.cities[targetCityId]))

\* a.score > b.score
scoreGreater(a, b) ==
    \/ a[1] > b[1]
    \/ a[1] = b[1] /\ CmpFrac(a[2], a[3], b[2], b[3]) > 0

\* a threshold that every target passes
meetsMinSuccessAlways(p) == TRUE

\* successProbability >= MIN_ATTACK_SUCCESS_PROBABILITY (0.6)
meetsMinSuccess(p) == CmpFrac(p[1], p[2], 6, 10) >= 0

noTarget == [targetCityId |-> "none"]

\* lines 477-484 of findBestAttackTarget: bestTarget after the evaluation
betterTarget(evaluation, bestTarget) ==
    IF ~meetsMinSuccess(evaluation.successProbability) THEN bestTarget
    ELSE IF \/ bestTarget.targetCityId = "none"
            \/ scoreGreater(evaluation.score, bestTarget.score)
    THEN evaluation
    ELSE bestTarget

\* the body of the loop of findBestAttackTarget for one connected city
considerTarget(connectedCityId, fromCity, faction, gs, bestTarget) ==
    IF connectedCityId \notin DOMAIN gs.cities THEN bestTarget
    ELSE IF diplomacyOf(faction, gs.cities[connectedCityId].faction) # "hostile"
    THEN bestTarget
    ELSE betterTarget(evaluateAttackTarget(fromCity, connectedCityId, gs),
                      bestTarget)

\* the loop of findBestAttackTarget; bestTarget is an evaluation or noTarget
RECURSIVE bestTargetScan(_, _, _, _, _)
bestTargetScan(connected, fromCity, faction, gs, bestTarget) ==
    IF connected = <<>> THEN bestTarget
    ELSE bestTargetScan(Tail(connected), fromCity, faction, gs,
                        considerTarget(Head(connected), fromCity, faction, gs,
                                       bestTarget))

findBestAttackTarget(fromCity, faction, gs) ==
    bestTargetScan(fromCity.connectedCities, fromCity, faction, gs, noTarget)

(***************************************************************************)
(* systems/aiSystem: planning                                              *)
(***************************************************************************)
\* let remainingAP = 3
AI_ACTION_POINTS == 3

\* the amount makeDecision takes from remainingAP for a queued action
aiActionCost(type) ==
    CASE type = "recruit" -> 1
      [] type = "attack" -> 2
      [] type = "develop" -> 1

\* branch 1 of makeDecision: the general to recruit with, or "none"
recruitChoice(cityId, gs, remainingAP) ==
    LET city == gs.cities[cityId]
        general == getBestPoliticsGeneral(city, gs.generals)
    IN IF /\ shouldRecruit(cityId, gs)
          /\ remainingAP >= 1
          /\ general # "none"
          /\ city.resources.gold >= 1000
          /\ city.resources.population >= 500
       THEN general ELSE "none"

\* lines 414-418: <<toCity, attacker>> or <<"none", "none">>
attackOrder(attackTarget, attacker, generals) ==
    IF attackTarget.targetCityId = "none" \/ attacker = "none"
    THEN <<"none", "none">>
    ELSE IF generals[attacker].troops >= 1000
    THEN <<attackTarget.targetCityId, attacker>>
    ELSE <<"none", "none">>

\* branch 2 of makeDecision: <<toCity, attacker>> or <<"none", "none">>
attackChoice(cityId, faction, gs, remainingAP) ==
    IF remainingAP >= 2
    THEN attackOrder(findBestAttackTarget(gs.cities[cityId], faction, gs),
                     getStrongestGeneral(gs.cities[cityId], gs.generals),
                     gs.generals)
    ELSE <<"none", "none">>

\* branch 3 of makeDecision: the general to develop with, or "none"
developChoice(cityId, gs, remainingAP) ==
    IF remainingAP >= 1 /\ gs.cities[cityId].resources.gold >= 100
    THEN getBestPoliticsGeneral(gs.cities[cityId], gs.generals)
    ELSE "none"

developTarget(city) ==
    IF city.resources.commerce < city.resources.agriculture
    THEN "commerce" ELSE "agriculture"

\* a choice that looks for an attack before it looks for a recruit
queuedActionAttackFirst(cityId, gs, recruiter, attack, developer) ==
    IF attack[1] # "none"
    THEN <<[type |-> "attack", fromCity |-> cityId, toCity |-> attack[1],
            generalId |-> attack[2]]>>
    ELSE IF recruiter # "none"
    THEN <<[type |-> "recruit", cityId |-> cityId, generalId |-> recruiter]>>
    ELSE IF developer # "none"
    THEN <<[type |-> "develop", cityId |-> cityId, generalId |-> developer,
            target |-> developTarget(gs.cities[cityId])]>>
    ELSE <<>>

\* the action queued for a city, or <<>>: the first of the three branches of
\* makeDecision that has found its general (and target)
queuedAction(cityId, gs, recruiter, attack, developer) ==
    IF recruiter # "none"
    THEN <<[type |-> "recruit", cityId |-> cityId, generalId |-> recruiter]>>
    ELSE IF attack[1] # "none"
    THEN <<[type |-> "attack", fromCity |-> cityId, toCity |-> attack[1],
            generalId |-> attack[2]]>>
    ELSE IF developer # "none"
    THEN <<[type |-> "develop", cityId |-> cityId, generalId |-> developer,
            target |-> developTarget(gs.cities[cityId])]>>
    ELSE <<>>

\* the body of makeDecision's loop for one city: the action queued, or <<>>
cityDecision(cityId, faction, gs, remainingAP) ==
    queuedAction(cityId, gs,
                 recruitChoice(cityId, gs, remainingAP),
                 attackChoice(cityId, faction, gs, remainingAP),
                 developChoice(cityId, gs, remainingAP))

\* a budget that is reset for every city
apAfterReset(remainingAP, queued) == AI_ACTION_POINTS

\* remainingAP after the loop body queued `queued` (a list of 0 or 1 actions)
apAfter(remainingAP, queued) ==
    IF queued = <<>> THEN remainingAP
    ELSE remainingAP - aiActionCost(queued[1].type)

RECURSIVE decisionLoop(_, _, _, _)

\* the rest of the loop after the body queued `queued` for the first city
decisionStep(queued, cityIds, faction, gs, remainingAP) ==
    queued \o decisionLoop(Tail(cityIds), faction, gs, apAfter(remainingAP, queued))

\* the for loop of makeDecision over faction.cities
decisionLoop(cityIds, faction, gs, remainingAP) ==
    IF cityIds = <<>> THEN <<>>
    ELSE IF remainingAP <= 0 THEN <<>>
    ELSE IF Head(cityIds) \notin DOMAIN gs.cities
    THEN decisionLoop(Tail(cityIds), faction, gs, remainingAP)
    ELSE decisionStep(cityDecision(Head(cityIds), faction, gs, remainingAP),
                      cityIds, faction, gs, remainingAP)

makeDecision(factionId, gs) ==
    IF factionId \notin DOMAIN gs.factions THEN <<>>
    ELSE decisionLoop(gs.factions[factionId].cities, gs.factions[factionId],
                      gs, AI_ACTION_POINTS)

(***************************************************************************)
(* systems/aiSystem: execution                                             *)
(***************************************************************************)
noResult == [ok |-> FALSE]

\* a recruit that does not look at what the city holds
executeAIRecruitUnchecked(action, gs) ==
    IF action.cityId \notin DOMAIN gs.cities \/ action.generalId \notin DOMAIN gs.generals
    THEN noResult
    ELSE [ok |-> TRUE,
          event |-> [type |-> "domestic",
                     timestamp |-> gs.currentDate,
                     data |-> [city |-> action.cityId,
                               action |-> "recruit",
                               executor |-> action.generalId,
                               value |-> calculateRecruitmentSoldiers(
                                            gs.generals[action.generalId].attributes.lead,
                                            gs.generals[action.generalId].attributes.cha)],
                     narrative |-> FALSE],
          soldiersGained |-> calculateRecruitmentSoldiers(
                                gs.generals[action.generalId].attributes.lead,
                                gs.generals[action.generalId].attributes.cha)]

executeAIRecruit(action, gs) ==
    IF action.cityId \notin DOMAIN gs.cities \/ action.generalId \notin DOMAIN gs.generals
    THEN noResult
    ELSE LET city == gs.cities[action.cityId]
             general == gs.generals[action.generalId]
             soldiersGained == calculateRecruitmentSoldiers(general.attributes.lead,
                                                            general.attributes.cha)
         IN IF \/ city.resources.gold < soldiersGained * 2
               \/ city.resources.population < soldiersGained
            THEN noResult
            ELSE [ok |-> TRUE,
                  event |-> [type |-> "domestic",
                             timestamp |-> gs.currentDate,
                             data |-> [city |-> action.cityId,
                                       action |-> "recruit",
                                       executor |-> action.generalId,
                                       value |-> soldiersGained],
                             narrative |-> FALSE],
                  soldiersGained |-> soldiersGained]

\* randomValue is Math.floor(Math.random() * 5) + 1
executeAIDevelop(action, gs, randomValue) ==
    IF action.cityId \notin DOMAIN gs.cities \/ action.generalId \notin DOMAIN gs.generals
    THEN noResult
    ELSE IF gs.cities[action.cityId].resources.gold < 100 THEN noResult
    ELSE LET valueIncrease ==
                 Floor(gs.generals[action.generalId].attributes.pol, 5) + randomValue
         IN [ok |-> TRUE,
             event |-> [type |-> "domestic",
                        timestamp |-> gs.currentDate,
                        data |-> [city |-> action.cityId,
                                  action |-> IF action.target = "commerce"
                                             THEN "develop_commerce"
                                             ELSE "develop_agriculture",
                                  executor |-> action.generalId,
                                  value |-> valueIncrease],
                        narrative |-> FALSE],
             valueIncrease |-> valueIncrease]

\* <<attackPower, defensePower>> of executeAIAttack, both times 1000
attackPowers(action, gs) ==
    <<calculateAttackPower(gs.generals[action.generalId].troops,
                           gs.generals[action.generalId].attributes.war,
                           gs.generals[action.generalId].attributes.lead),
      defensePowerWith(calculateCityTroops(gs.cities[action.toCity], gs.generals),
                       getStrongestGeneral(gs.cities[action.toCity], gs.generals),
                       gs.generals,
                       gs.cities[action.toCity].resources.defense)>>

\* the classification of powerRatio: "win" (> 1.5), "lose" (< 0.67) or "flip"
attackZone(attackPower, defensePower) ==
    IF defensePower <= 0 THEN "win"
    ELSE IF CmpFrac(attackPower, defensePower, 15, 10) > 0 THEN "win"
    ELSE IF CmpFrac(attackPower, defensePower, 67, 100) < 0 THEN "lose"
    ELSE "flip"

attackZoneOf(powers) == attackZone(powers[1], powers[2])

\* lines 626-633: coin is Math.random() > 0.5, consulted in the "flip" zone only
battleResult(zone, coin) ==
    IF zone = "flip" THEN (IF coin THEN "win" ELSE "lose") ELSE zone

\* lines 636-642
casualtiesOf(result, baseCasualties) ==
    [attacker |-> IF result = "win" THEN Floor(baseCasualties * 8, 10)
                  ELSE Floor(baseCasualties * 12, 10),
     defender |-> IF result = "win" THEN Floor(baseCasualties * 12, 10)
                  ELSE Floor(baseCasualties * 8, 10)]

\* lines 606-609: the troops of the city if it has a defender, else 0
defenderTroopsOf(toCity, defender, generals) ==
    IF defender # "none" THEN calculateCityTroops(toCity, generals) ELSE 0

\* lines 644-663: the battle event and the result
battleOutcome(action, gs, defender, defenderTroops, result) ==
    [ok |-> TRUE,
     event |-> [type |-> "battle",
                timestamp |-> gs.currentDate,
                data |-> [attacker |-> gs.cities[action.fromCity].faction,
                          defender |-> gs.cities[action.toCity].faction,
                          attackerGeneral |-> action.generalId,
                          defenderGeneral |-> IF defender # "none"
                                              THEN defender ELSE "",
                          result |-> result,
                          casualties |->
                             casualtiesOf(result,
                                Floor(Min(gs.generals[action.generalId].troops,
                                          defenderTroops), 10)),
                          cityCapture |-> IF result = "win"
                                          THEN action.toCity ELSE "none"],
                narrative |-> FALSE],
     result |-> result]

\* lines 606-663, defender being the strongest general of the target city
battleWith(action, gs, defender, coin) ==
    battleOutcome(action, gs, defender,
                  defenderTroopsOf(gs.cities[action.toCity], defender, gs.generals),
                  battleResult(attackZoneOf(attackPowers(action, gs)), coin))

executeAIAttack(action, gs, coin) ==
    IF \/ action.fromCity \notin DOMAIN gs.cities
       \/ action.toCity \notin DOMAIN gs.cities
       \/ action.generalId \notin DOMAIN gs.generals
    THEN noResult
    ELSE battleWith(action, gs,
                    getStrongestGeneral(gs.cities[action.toCity], gs.generals),
                    coin)

\* Object.entries(gameState.factions): the insertion order of the faction map
FactionOrder == <<"dz", "cc", "ys", "lb">>

\* the actions of all AI factions in execution order, as [factionId, action]
RECURSIVE planOf(_, _, _)
planOf(factionIds, gs, playerFactionId) ==
    IF factionIds = <<>> THEN <<>>
    ELSE LET factionId == Head(factionIds)
             rest == planOf(Tail(factionIds), gs, playerFactionId)
             tag(actions) == [i \in 1..Len(actions) |->
                                 [factionId |-> factionId, action |-> actions[i]]]
         IN IF factionId = playerFactionId THEN rest
            ELSE IF factionId \notin DOMAIN gs.factions THEN rest
            ELSE IF Len(gs.factions[factionId].cities) = 0 THEN rest
            ELSE tag(makeDecision(factionId, gs)) \o rest

\* the values the random draw of one planned action can take (0: no draw made)
drawChoices(entry, gs) ==
    IF entry.action.type = "develop"
    THEN (IF executeAIDevelop(entry.action, gs, 1).ok THEN 1..5 ELSE {0})
    ELSE IF entry.action.type = "attack"
    THEN (IF attackZoneOf(attackPowers(entry.action, gs)) = "flip"
          THEN {0, 1} ELSE {0})
    ELSE {0}

\* all sequences of draws for a plan
RECURSIVE drawsFor(_, _)
drawsFor(plan, gs) ==
    IF plan = <<>> THEN {<<>>}
    ELSE {<<d>> \o rest : d \in drawChoices(Head(plan), gs),
                          rest \in drawsFor(Tail(plan), gs)}

\* lines 699-709: the event and the state update of a recruit
recruitOutcome(entry, result) ==
    IF ~result.ok THEN noResult
    ELSE [ok |-> TRUE, event |-> result.event,
          update |-> [type |-> "recruit", factionId |-> entry.factionId,
                      cityId |-> entry.action.cityId,
                      generalId |-> entry.action.generalId,
                      value |-> result.soldiersGained]]

\* lines 713-724: the event and the state update of a develop
developOutcome(entry, result) ==
    IF ~result.ok THEN noResult
    ELSE [ok |-> TRUE, event |-> result.event,
          update |-> [type |-> "develop", factionId |-> entry.factionId,
                      cityId |-> entry.action.cityId,
                      generalId |-> entry.action.generalId,
                      target |-> entry.action.target,
                      value |-> result.valueIncrease]]

\* lines 728-739: the event and the state update of an attack
attackOutcome(entry, result) ==
    IF ~result.ok THEN noResult
    ELSE [ok |-> TRUE, event |-> result.event,
          update |-> [type |-> "attack", factionId |-> entry.factionId,
                      fromCityId |-> entry.action.fromCity,
                      toCityId |-> entry.action.toCity,
                      generalId |-> entry.action.generalId,
                      result |-> result.result]]

\* the switch of executeAITurns for one action: its result and state update
executeAction(entry, gs, draw) ==
    CASE entry.action.type = "recruit" ->
            recruitOutcome(entry, executeAIRecruit(entry.action, gs))
      [] entry.action.type = "develop" ->
            developOutcome(entry, executeAIDevelop(entry.action, gs, draw))
      [] entry.action.type = "attack" ->
            attackOutcome(entry, executeAIAttack(entry.action, gs, draw = 1))

\* events.push / stateUpdates.push of one action before those of the rest
collectOutcome(r, rest) ==
    IF r.ok
    THEN [events |-> <<r.event>> \o rest.events,
          stateUpdates |-> <<r.update>> \o rest.stateUpdates]
    ELSE rest

RECURSIVE executePlan(_, _, _)
executePlan(plan, gs, draws) ==
    IF plan = <<>> THEN [events |-> <<>>, stateUpdates |-> <<>>]
    ELSE collectOutcome(executeAction(Head(plan), gs, Head(draws)),
                        executePlan(Tail(plan), gs, Tail(draws)))

executeAITurns(gs, playerFactionId, draws) ==
    executePlan(planOf(FactionOrder, gs, playerFactionId), gs, draws)

(***************************************************************************)
(* systems/aiSystem: applying the state updates                            *)
(***************************************************************************)
applyRecruit(s, update) ==
    IF update.cityId \notin DOMAIN s.cities \/ update.generalId \notin DOMAIN s.generals
    THEN s
    ELSE [s EXCEPT
            !.cities[update.cityId].resources =
                [@ EXCEPT !.gold = @ - update.value * 2,
                          !.population = @ - update.value,
                          !.loyalty = Max(0, @ - 3)],
            !.generals[update.generalId].troops = @ + update.value]

applyDevelop(s, update) ==
    IF update.cityId \notin DOMAIN s.cities THEN s
    ELSE IF update.target = "commerce"
    THEN [s EXCEPT !.cities[update.cityId].resources =
                      [@ EXCEPT !.gold = @ - 100,
                                !.commerce = Min(COMMERCE_MAX, @ + update.value)]]
    ELSE [s EXCEPT !.cities[update.cityId].resources =
                      [@ EXCEPT !.gold = @ - 100,
                                !.agriculture = Min(COMMERCE_MAX, @ + update.value)]]

\* the eviction loop over the snapshot [...toCity.stationedGenerals]
RECURSIVE evictLoop(_, _, _, _, _)
evictLoop(snapshot, s, toCityId, newFactionId, escapeCities) ==
    IF snapshot = <<>> THEN s
    ELSE LET generalId == Head(snapshot)
             next(t) == evictLoop(Tail(snapshot), t, toCityId, newFactionId,
                                  escapeCities)
         IN IF /\ generalId \in DOMAIN s.generals
               /\ s.generals[generalId].faction # newFactionId
               /\ Len(escapeCities) > 0
            THEN LET escapeCity == escapeCities[1]
                     removed == [s EXCEPT !.cities[toCityId].stationedGenerals =
                                             Without(@, generalId)]
                 IN next([removed EXCEPT
                            !.cities[escapeCity].stationedGenerals =
                                Append(@, generalId),
                            !.generals[generalId].currentCity = escapeCity])
            ELSE next(s)

\* an application that leaves the city in its previous owner's list
applyAttackKeepOwner(s, update) ==
    IF update.result # "win" THEN s
    ELSE IF \/ update.fromCityId \notin DOMAIN s.cities
            \/ update.toCityId \notin DOMAIN s.cities
            \/ update.generalId \notin DOMAIN s.generals
    THEN s
    ELSE LET oldFactionId == s.cities[update.toCityId].faction IN
         IF oldFactionId \notin DOMAIN s.factions \/ update.factionId \notin DOMAIN s.factions
         THEN s
         ELSE LET s1 == s
                  s2 == [s1 EXCEPT !.factions[update.factionId].cities =
                                      Append(@, update.toCityId)]
                  s3 == [s2 EXCEPT !.cities[update.toCityId].faction =
                                      update.factionId]
                  s4 == [s3 EXCEPT !.cities[update.fromCityId].stationedGenerals =
                                      Without(@, update.generalId)]
                  s5 == [s4 EXCEPT !.cities[update.toCityId].stationedGenerals =
                                      Append(@, update.generalId)]
                  s6 == [s5 EXCEPT !.generals[update.generalId].currentCity =
                                      update.toCityId]
              IN evictLoop(s6.cities[update.toCityId].stationedGenerals, s6,
                           update.toCityId, update.factionId,
                           Without(s6.factions[oldFactionId].cities,
                                   update.toCityId))

applyAttack(s, update) ==
    IF update.result # "win" THEN s
    ELSE IF \/ update.fromCityId \notin DOMAIN s.cities
            \/ update.toCityId \notin DOMAIN s.cities
            \/ update.generalId \notin DOMAIN s.generals
    THEN s
    ELSE LET oldFactionId == s.cities[update.toCityId].faction IN
         IF oldFactionId \notin DOMAIN s.factions \/ update.factionId \notin DOMAIN s.factions
         THEN s
         ELSE LET s1 == [s EXCEPT !.factions[oldFactionId].cities =
                                     Without(@, update.toCityId)]
                  s2 == [s1 EXCEPT !.factions[update.factionId].cities =
                                      Append(@, update.toCityId)]
                  s3 == [s2 EXCEPT !.cities[update.toCityId].faction =
                                      update.factionId]
                  s4 == [s3 EXCEPT !.cities[update.fromCityId].stationedGenerals =
                                      Without(@, update.generalId)]
                  s5 == [s4 EXCEPT !.cities[update.toCityId].stationedGenerals =
                                      Append(@, update.generalId)]
                  s6 == [s5 EXCEPT !.generals[update.generalId].currentCity =
                                      update.toCityId]
              IN evictLoop(s6.cities[update.toCityId].stationedGenerals, s6,
                           update.toCityId, update.factionId,
                           Without(s6.factions[oldFactionId].cities,
                                   update.toCityId))

\* an attack that also takes a tenth of the attacker's troops
applyUpdateWithLosses(s, update) ==
    CASE update.type = "recruit" -> applyRecruit(s, update)
      [] update.type = "develop" -> applyDevelop(s, update)
      [] update.type = "attack" ->
           [applyAttack(s, update) EXCEPT
               !.generals[update.generalId].troops = @ - (@ \div 10)]

applyUpdate(s, update) ==
    CASE update.type = "recruit" -> applyRecruit(s, update)
      [] update.type = "develop" -> applyDevelop(s, update)
      [] update.type = "attack" -> applyAttack(s, update)

RECURSIVE applyAIStateUpdates(_, _)
applyAIStateUpdates(gs, updates) ==
    IF updates = <<>> THEN gs
    ELSE applyAIStateUpdates(applyUpdate(gs, Head(updates)), Tail(updates))

(***************************************************************************)
(* store/gameState: the reducer                                            *)
(***************************************************************************)
getAPCost(actionType) ==
    CASE actionType = "domestic" -> AP_COST_DOMESTIC
      [] actionType = "movement" -> AP_COST_MOVEMENT
      [] actionType = "campaign" -> AP_COST_CAMPAIGN

\* a next month that does not wrap into the next year
calculateNextMonthNoWrap(current) ==
    [year |-> current.year, month |-> current.month + 1]

calculateNextMonth(current) ==
    IF current.month = 12 THEN [year |-> current.year + 1, month |-> 1]
    ELSE [year |-> current.year, month |-> current.month + 1]

gameReducer(state, action) ==
    CASE action.type = "DEDUCT_AP" ->
            [state EXCEPT !.actionPoints = Max(0, @ - getAPCost(action.payload))]
      [] action.type = "RESTORE_AP" ->
            [state EXCEPT !.actionPoints = INITIAL_ACTION_POINTS]
      [] action.type = "SET_PHASE" ->
            [state EXCEPT !.phase = action.payload]
      [] action.type = "ADVANCE_MONTH" ->
            [state EXCEPT !.currentDate = calculateNextMonth(@)]
      [] action.type = "ADD_EVENTS" ->
            [state EXCEPT !.eventLog = action.payload \o @]
      [] action.type = "LOAD_STATE" -> action.payload

(***************************************************************************)
(* systems/gameLoop: GameLoopController.endPlayerTurn                      *)
(***************************************************************************)
\* lines 81-86: the AI turns and their effects on currentState
aiEffects(gameState, aiResult) ==
    [state |-> IF Len(aiResult.stateUpdates) > 0
               THEN applyAIStateUpdates(gameState, aiResult.stateUpdates)
               ELSE gameState,
     events |-> aiResult.events,
     updates |-> aiResult.stateUpdates,
     copied |-> Len(aiResult.stateUpdates) > 0]

aiPhase(gameState, draws) ==
    aiEffects(gameState, executeAITurns(gameState, gameState.currentFaction, draws))

\* lines 93-132: the date, the gold income, the ages and the grain income
applyTurnResult(currentState, turnResult) ==
    LET dated == [currentState EXCEPT !.currentDate = turnResult.newDate]
        withGold == [dated EXCEPT !.cities =
                        [cityId \in DOMAIN dated.cities |->
                            [dated.cities[cityId] EXCEPT !.resources.gold =
                                @ + turnResult.goldIncome[cityId]]]]
        aged == IF turnResult.hasGenerals
                THEN [withGold EXCEPT !.generals = turnResult.updatedGenerals]
                ELSE withGold
    IN IF turnResult.hasGrain
       THEN [aged EXCEPT !.cities =
                [cityId \in DOMAIN aged.cities |->
                    [aged.cities[cityId] EXCEPT !.resources.grain =
                        @ + turnResult.grainIncome[cityId]]]]
       ELSE aged

\* the turn end computed from the state as it was before the AI phase
turnEndBeforeAI(gameState, ai) ==
    [state |-> applyTurnResult(ai.state, processTurnEnd(gameState)),
     afterAI |-> ai.state,
     events |-> ai.events,
     updates |-> ai.updates,
     copied |-> ai.copied]

\* lines 88-132: processTurnEnd(currentState) and its application, ai being
\* the outcome of the AI phase
turnEnd(gameState, ai) ==
    [state |-> applyTurnResult(ai.state, processTurnEnd(ai.state)),
     afterAI |-> ai.state,
     events |-> ai.events,
     updates |-> ai.updates,
     copied |-> ai.copied]

\* lines 72-132: currentState when the narrative phase is entered
settleTurn(gameState, draws) ==
    turnEnd(gameState, aiPhase(gameState, draws))

\* a narrative phase that loses the events when the historian fails
processNarrativePhaseDropping(events, ok) ==
    IF ok THEN [i \in 1..Len(events) |-> [events[i] EXCEPT !.narrative = TRUE]]
    ELSE <<>>

\* processNarrativePhase: the events with their narrative, or as they were
processNarrativePhase(events, ok) ==
    IF ok THEN [i \in 1..Len(events) |-> [events[i] EXCEPT !.narrative = TRUE]]
    ELSE events

\* a log that puts the processed events behind the entries it holds
addToLogAtEnd(currentState, processedEvents) ==
    [currentState EXCEPT !.eventLog = @ \o processedEvents]

\* lines 147-150: the processed events are put into the event log
addToLog(currentState, processedEvents) ==
    [currentState EXCEPT !.eventLog = processedEvents \o @]

\* lines 159-163
restoreTurn(currentState) ==
    [currentState EXCEPT !.actionPoints = restoreActionPoints,
                         !.phase = "player"]

\* the callbacks of App.tsx applied to the store, in the order given
RECURSIVE dispatchAll(_, _)
dispatchAll(state, actions) ==
    IF actions = <<>> THEN state
    ELSE dispatchAll(gameReducer(state, Head(actions)), Tail(actions))

\* the input object after the call: currentState shares its cities map unless
\* applyAIStateUpdates made a deep copy
inputAfter(gameState, settled) ==
    IF settled.copied THEN gameState
    ELSE [gameState EXCEPT !.cities = settled.state.cities]

NoCall == [status |-> "none"]
NoReject == [seen |-> FALSE]

\* a controller without the guard
inFlightIgnored(processing) == FALSE

\* line 66: the in-flight guard
inFlight(processing) == processing

\* lines 139-176: the rest of the call once the narrative phase has resolved
\* (ok: historian.processEvents did not throw); the autoSave argument, the
\* returned state and the actions the callbacks dispatch, in order
finishTurn(currentState, events, ok) ==
    LET processedEvents == processNarrativePhase(events, ok)
        logged == IF Len(events) > 0 THEN addToLog(currentState, processedEvents)
                  ELSE currentState
        final == restoreTurn(logged)
    IN [saved |-> logged,
        returned |-> final,
        dispatched |-> (IF Len(events) > 0
                        THEN <<[type |-> "ADD_EVENTS", payload |-> processedEvents]>>
                        ELSE <<>>)
                       \o <<[type |-> "SET_PHASE", payload |-> "player"],
                            [type |-> "LOAD_STATE", payload |-> final]>>]

\* the calls of onPhaseChange made by a list of dispatched actions
RECURSIVE phasesOf(_)
phasesOf(actions) ==
    IF actions = <<>> THEN <<>>
    ELSE (IF Head(actions).type = "SET_PHASE" THEN <<Head(actions).payload>>
          ELSE <<>>) \o phasesOf(Tail(actions))

\* the narrative phase signalled before the calculation phase
enterPhasesSwapped == <<[type |-> "SET_PHASE", payload |-> "narrative"],
                        [type |-> "SET_PHASE", payload |-> "calculation"]>>

enterPhases == <<[type |-> "SET_PHASE", payload |-> "calculation"],
                 [type |-> "SET_PHASE", payload |-> "narrative"]>>

\* what one call of endPlayerTurn has seen up to the narrative phase
seenBy(gameState, settled) ==
    [input |-> gameState,
     inputAfter |-> inputAfter(gameState, settled),
     afterAI |-> settled.afterAI,
     events |-> settled.events,
     updates |-> settled.updates,
     settled |-> settled.state]

\* handleEndTurn -> endPlayerTurn(state), up to the await of the narrative
\* phase, or to the end when there is no event to narrate
EndPlayerTurnWithin(maxTurns) ==
    /\ ~inFlight(isProcessing)
    /\ turns < maxTurns
    /\ turns' = turns + 1
    /\ rejected' = NoReject
    /\ \E draws \in drawsFor(planOf(FactionOrder, store, store.currentFaction), store) :
       \E settled \in {settleTurn(store, draws)} :
       \E fin \in {finishTurn(settled.state, <<>>, TRUE)} :
       \E seen \in {seenBy(store, settled)} :
          IF Len(settled.events) > 0
          THEN /\ isProcessing' = TRUE
               /\ isLoading' = TRUE
               /\ pc' = "narrative"
               /\ work' = settled.state
               /\ pending' = settled.events
               /\ store' = dispatchAll(store, enterPhases)
               /\ call' = [status |-> "suspended", seen |-> seen,
                           phases |-> phasesOf(enterPhases),
                           loading |-> <<TRUE, TRUE, TRUE>>]
          ELSE /\ isProcessing' = FALSE
               /\ isLoading' = FALSE
               /\ pc' = "idle"
               /\ work' = fin.returned
               /\ pending' = <<>>
               /\ store' = dispatchAll(store, enterPhases \o fin.dispatched)
               /\ call' = [status |-> "done", seen |-> seen,
                           phases |-> phasesOf(enterPhases \o fin.dispatched),
                           loading |-> <<TRUE, TRUE, TRUE, FALSE>>,
                           narrated |-> TRUE,
                           saved |-> fin.saved,
                           returned |-> fin.returned]
    /\ UNCHANGED <<rid, dispatches, vap, fn>>

EndPlayerTurn == EndPlayerTurnWithin(MaxTurns)

\* the narrative service answers (ok) or fails (~ok) and the call runs to its end
NarrativeDone ==
    /\ pc = "narrative"
    /\ \E ok \in BOOLEAN :
         LET fin == finishTurn(work, pending, ok) IN
         /\ store' = dispatchAll(store, fin.dispatched)
         /\ work' = fin.returned
         /\ call' = [status |-> "done", seen |-> call.seen,
                     phases |-> call.phases \o phasesOf(fin.dispatched),
                     loading |-> Append(call.loading, FALSE),
                     narrated |-> ok,
                     saved |-> fin.saved,
                     returned |-> fin.returned]
    /\ pending' = <<>>
    /\ isProcessing' = FALSE
    /\ isLoading' = FALSE
    /\ pc' = "idle"
    /\ UNCHANGED <<rejected, rid, turns, dispatches, vap, fn>>

\* a controller whose flag stays set when a step has thrown
isProcessingAfterSuccessOnly(threw) == threw

\* lines 167-170: finally { this.isProcessing = false; ... }
isProcessingAfter(threw) == FALSE

\* lines 139-176 when a step after the narrative phase throws (the
\* onEventsAdded callback of line 152, before it has dispatched anything):
\* the events are in currentState, autoSave and lines 159-166 are skipped,
\* catch logs the error, finally clears the flag and signals loading off,
\* and currentState is returned
NarrativeThrows ==
    /\ pc = "narrative"
    /\ \E ok \in BOOLEAN :
         /\ work' = addToLog(work, processNarrativePhase(pending, ok))
         /\ call' = [status |-> "threw", seen |-> call.seen,
                     phases |-> call.phases,
                     loading |-> Append(call.loading, FALSE),
                     narrated |-> ok,
                     returned |-> work']
    /\ pending' = <<>>
    /\ isProcessing' = isProcessingAfter(TRUE)
    /\ isLoading' = FALSE
    /\ pc' = "idle"
    /\ UNCHANGED <<store, rejected, rid, turns, dispatches, vap, fn>>

\* lines 66-69: a call made while another one is in flight
EndPlayerTurnRejected ==
    /\ inFlight(isProcessing)
    /\ \E gameState \in {store, call.seen.input} :
         rejected' = [seen |-> TRUE, input |-> gameState, returned |-> gameState]
    /\ UNCHANGED <<store, isProcessing, isLoading, pc, work, pending, call, rid,
                   turns, dispatches, vap, fn>>

\* the player dispatches a reducer action between two turn ends
Dispatch(action) ==
    /\ pc = "idle"
    /\ dispatches < MaxDispatch
    /\ store' = gameReducer(store, action)
    /\ rid' = [type |-> action.type, payload |-> action.payload,
               ap |-> store.actionPoints]
    /\ dispatches' = dispatches + 1
    /\ UNCHANGED <<isProcessing, isLoading, pc, work, pending, call, rejected,
                   turns, vap, fn>>

DeductAP == \E t \in ActionTypes : Dispatch([type |-> "DEDUCT_AP", payload |-> t])

RestoreAP == Dispatch([type |-> "RESTORE_AP", payload |-> "none"])

AdvanceMonth == Dispatch([type |-> "ADVANCE_MONTH", payload |-> "none"])

(***************************************************************************)
(* data/scenario190: the map of the 190 scenario and five saved games      *)
(***************************************************************************)
general(faction, lead, war, int, pol, cha, age, isAlive, currentCity, troops) ==
    [faction |-> faction,
     attributes |-> [lead |-> lead, war |-> war, int |-> int, pol |-> pol,
                     cha |-> cha],
     age |-> age, isAlive |-> isAlive, currentCity |-> currentCity,
     troops |-> troops]

city(faction, scale, population, gold, grain, commerce, agriculture, defense, loyalty, connectedCities, stationedGenerals, governor) ==
    [faction |-> faction, scale |-> scale,
     resources |-> [population |-> population, gold |-> gold, grain |-> grain,
                    commerce |-> commerce, agriculture |-> agriculture,
                    defense |-> defense, loyalty |-> loyalty],
     connectedCities |-> connectedCities,
     stationedGenerals |-> stationedGenerals,
     governor |-> governor]

faction(cities, diplomacy) == [cities |-> cities, diplomacy |-> diplomacy]

\* FACTIONS_190: dongzhuo is hostile to all, the others to dongzhuo only
diplomacy190(factionId) ==
    CASE factionId = "dz" -> [f \in {"cc", "ys", "lb"} |-> "hostile"]
      [] factionId = "cc" -> [f \in {"dz", "ys", "lb"} |->
                                 IF f = "dz" THEN "hostile" ELSE "neutral"]
      [] factionId = "ys" -> [f \in {"dz", "cc", "lb"} |->
                                 IF f = "dz" THEN "hostile" ELSE "neutral"]
      [] factionId = "lb" -> [f \in {"dz", "cc", "ys"} |->
                                 IF f = "dz" THEN "hostile" ELSE "neutral"]

Worlds == {"contest", "rush", "fall", "lull", "clash"}

\* who owns which cities, in faction.cities order
citiesOf(world, factionId) ==
    CASE factionId = "dz" -> <<"ly", "ca">>
      [] factionId = "cc" -> <<"cl">>
      [] factionId = "ys" -> IF world = "fall" THEN <<"ye">> ELSE <<"np", "ye">>
      [] factionId = "lb" -> IF world = "fall" THEN <<"py", "np">> ELSE <<"py">>

worldFactions(world) ==
    [f \in {"dz", "cc", "ys", "lb"} |-> faction(citiesOf(world, f), diplomacy190(f))]

\* GENERALS_190 (attributes and ages); troops and stations are the save's
worldGenerals(world) ==
    CASE world = "contest" ->
           [dongzhuo |-> general("dz", 70, 75, 55, 30, 20, 52, TRUE, "ly", 12000),
            lvbu     |-> general("dz", 90, 100, 25, 15, 40, 29, TRUE, "ly", 6400),
            huaxiong |-> general("dz", 75, 90, 35, 20, 30, 35, TRUE, "ca", 9000),
            caocao   |-> general("cc", 96, 72, 91, 94, 96, 35, TRUE, "cl", 8000),
            yanliang |-> general("ys", 70, 95, 30, 25, 45, 32, TRUE, "np", 1000),
            yuanshao |-> general("ys", 75, 55, 65, 70, 85, 36, TRUE, "ye", 6000),
            liubei   |-> general("lb", 78, 65, 70, 75, 99, 29, TRUE, "py", 3000)]
      [] world = "rush" ->
           [dongzhuo |-> general("dz", 70, 75, 55, 30, 20, 52, TRUE, "ly", 2000),
            lvbu     |-> general("dz", 90, 100, 25, 15, 40, 29, TRUE, "ly", 1000),
            huaxiong |-> general("dz", 75, 90, 35, 20, 30, 35, FALSE, "ca", 0),
            caocao   |-> general("cc", 96, 72, 91, 94, 96, 35, TRUE, "cl", 8000),
            yanliang |-> general("ys", 70, 95, 30, 25, 45, 32, TRUE, "np", 12000),
            yuanshao |-> general("ys", 75, 55, 65, 70, 85, 36, TRUE, "ye", 6000),
            liubei   |-> general("lb", 78, 65, 70, 75, 99, 29, TRUE, "py", 3000)]
      [] world = "fall" ->
           [dongzhuo |-> general("dz", 70, 75, 55, 30, 20, 52, TRUE, "ly", 5000),
            lvbu     |-> general("dz", 90, 100, 25, 15, 40, 29, TRUE, "ca", 6000),
            huaxiong |-> general("dz", 75, 90, 35, 20, 30, 35, TRUE, "ca", 9000),
            caocao   |-> general("cc", 96, 72, 91, 94, 96, 35, TRUE, "cl", 2000),
            yanliang |-> general("ys", 70, 95, 30, 25, 45, 32, TRUE, "ye", 8000),
            yuanshao |-> general("ys", 75, 55, 65, 70, 85, 36, TRUE, "ye", 6000),
            liubei   |-> general("lb", 78, 65, 70, 75, 99, 29, TRUE, "py", 3000)]
      [] world = "lull" ->
           [dongzhuo |-> general("dz", 70, 75, 55, 30, 20, 52, TRUE, "ly", 500),
            lvbu     |-> general("dz", 90, 100, 25, 15, 40, 29, TRUE, "ly", 300),
            huaxiong |-> general("dz", 75, 90, 35, 20, 30, 35, FALSE, "ca", 0),
            caocao   |-> general("cc", 96, 72, 91, 94, 96, 35, TRUE, "cl", 800),
            yanliang |-> general("ys", 70, 95, 30, 25, 45, 32, TRUE, "np", 0),
            yuanshao |-> general("ys", 75, 55, 65, 70, 85, 36, TRUE, "ye", 600),
            liubei   |-> general("lb", 78, 65, 70, 75, 99, 29, TRUE, "py", 3000)]
      [] world = "clash" ->
           [dongzhuo |-> general("dz", 70, 75, 55, 30, 20, 52, TRUE, "ca", 11000),
            lvbu     |-> general("dz", 90, 100, 25, 15, 40, 29, TRUE, "ly", 10000),
            huaxiong |-> general("dz", 75, 90, 35, 20, 30, 35, TRUE, "ca", 1000),
            caocao   |-> general("cc", 96, 72, 91, 94, 96, 35, TRUE, "cl", 800),
            yanliang |-> general("ys", 70, 95, 30, 25, 45, 32, TRUE, "ye", 12000),
            yuanshao |-> general("ys", 75, 55, 65, 70, 85, 36, TRUE, "np", 6000),
            liubei   |-> general("lb", 78, 65, 70, 75, 99, 29, TRUE, "py", 3000)]

\* CITIES_190 (owners, scales, adjacency, defense); the stocks are the save's
worldCities(world) ==
    CASE world = "contest" ->
           [ly |-> city("dz", "large", 1000, 150, 100000, 0, 400, 80, 60,
                        <<"ca", "cl", "ye">>, <<"dongzhuo", "lvbu">>, "dongzhuo"),
            ca |-> city("dz", "large", 50000, 3000, 80000, 0, 500, 70, 55,
                        <<"ly">>, <<"huaxiong">>, "huaxiong"),
            cl |-> city("cc", "medium", 1000, 1200, 30000, 0, 250, 40, 75,
                        <<"ly", "py">>, <<"caocao">>, "caocao"),
            np |-> city("ys", "medium", 120000, 20000, 40000, 300, 350, 50, 70,
                        <<"ye", "py">>, <<"yanliang">>, "yanliang"),
            ye |-> city("ys", "large", 2000, 50, 60000, 0, 450, 60, 72,
                        <<"np", "ly">>, <<"yuanshao">>, "yuanshao"),
            py |-> city("lb", "small", 50000, 5000, 10000, 100, 150, 30, 85,
                        <<"np", "cl">>, <<"liubei">>, "liubei")]
      [] world = "rush" ->
           [ly |-> city("dz", "large", 1000, 50, 100000, 0, 400, 80, 60,
                        <<"ca", "cl", "ye">>, <<"dongzhuo", "lvbu">>, "dongzhuo"),
            ca |-> city("dz", "large", 1000, 0, 80000, 0, 500, 70, 55,
                        <<"ly">>, <<"huaxiong">>, "none"),
            cl |-> city("cc", "medium", 1000, 50, 30000, 0, 250, 40, 75,
                        <<"ly", "py">>, <<"caocao">>, "caocao"),
            np |-> city("ys", "medium", 1000, 120, 40000, 0, 350, 50, 70,
                        <<"ye", "py">>, <<"yanliang">>, "yanliang"),
            ye |-> city("ys", "large", 1000, 50, 60000, 0, 450, 60, 72,
                        <<"np", "ly">>, <<"yuanshao">>, "yuanshao"),
            py |-> city("lb", "small", 50000, 5000, 10000, 100, 150, 30, 85,
                        <<"np", "cl">>, <<"liubei">>, "liubei")]
      [] world = "fall" ->
           [ly |-> city("dz", "large", 1000, 50, 100000, 0, 400, 80, 60,
                        <<"ca", "cl", "ye">>, <<"dongzhuo">>, "dongzhuo"),
            ca |-> city("dz", "large", 1000, 0, 80000, 0, 500, 70, 55,
                        <<"ly">>, <<"lvbu", "huaxiong">>, "huaxiong"),
            cl |-> city("cc", "medium", 1000, 0, 30000, 0, 250, 40, 75,
                        <<"ly", "py">>, <<"caocao">>, "caocao"),
            np |-> city("lb", "medium", 120000, 0, 40000, 300, 350, 50, 70,
                        <<"ye", "py">>, <<>>, "none"),
            ye |-> city("ys", "large", 180000, 30000, 60000, 400, 450, 60, 72,
                        <<"np", "ly">>, <<"yuanshao", "yanliang">>, "yuanshao"),
            py |-> city("lb", "small", 1000, 0, 10000, 0, 150, 30, 85,
                        <<"np", "cl">>, <<"liubei">>, "liubei")]
      [] world = "lull" ->
           [ly |-> city("dz", "large", 1000, 10, 100000, 0, 400, 80, 60,
                        <<"ca", "cl", "ye">>, <<"dongzhuo", "lvbu">>, "dongzhuo"),
            ca |-> city("dz", "large", 1000, 0, 80000, 0, 500, 70, 55,
                        <<"ly">>, <<"huaxiong">>, "none"),
            cl |-> city("cc", "medium", 1000, 20, 30000, 0, 250, 40, 75,
                        <<"ly", "py">>, <<"caocao">>, "caocao"),
            np |-> city("ys", "medium", 1000, 0, 40000, 0, 350, 50, 70,
                        <<"ye", "py">>, <<"yanliang">>, "yanliang"),
            ye |-> city("ys", "large", 1000, 30, 60000, 0, 450, 60, 72,
                        <<"np", "ly">>, <<"yuanshao">>, "yuanshao"),
            py |-> city("lb", "small", 50000, 5000, 10000, 100, 150, 30, 85,
                        <<"np", "cl">>, <<"liubei">>, "liubei")]
      [] world = "clash" ->
           [ly |-> city("dz", "large", 1000, 150, 100000, 0, 400, 80, 60,
                        <<"ca", "cl", "ye">>, <<"lvbu">>, "lvbu"),
            ca |-> city("dz", "large", 1000, 0, 80000, 0, 500, 70, 55,
                        <<"ly">>, <<"huaxiong", "dongzhuo">>, "huaxiong"),
            cl |-> city("cc", "medium", 1000, 20, 30000, 0, 250, 40, 75,
                        <<"ly", "py">>, <<"caocao">>, "caocao"),
            np |-> city("ys", "medium", 1000, 0, 40000, 0, 350, 50, 70,
                        <<"ye", "py">>, <<"yuanshao">>, "yuanshao"),
            ye |-> city("ys", "large", 1000, 50, 60000, 0, 450, 60, 72,
                        <<"np", "ly">>, <<"yanliang">>, "yanliang"),
            py |-> city("lb", "small", 50000, 5000, 10000, 100, 150, 30, 85,
                        <<"np", "cl">>, <<"liubei">>, "liubei")]

\* the player faction of each saved game
worldPlayer(world) == IF world = "fall" THEN "ys" ELSE "lb"

\* the dates the saved games are loaded at
InitDates == {[year |-> 190, month |-> 1], [year |-> 190, month |-> 6],
              [year |-> 190, month |-> 12]}

\* LOAD_SCENARIO / LOAD_STATE of a saved game
loadedState(world, date, ap) ==
    [currentDate |-> date,
     currentFaction |-> worldPlayer(world),
     actionPoints |-> ap,
     phase |-> "player",
     factions |-> worldFactions(world),
     cities |-> worldCities(world),
     generals |-> worldGenerals(world),
     eventLog |-> <<>>]

NoFn == [op |-> "none", done |-> FALSE]
NoDispatch == [type |-> "none", payload |-> "none", ap |-> 0]
NoRun == [initialAP |-> 0, actions |-> <<>>, done |-> FALSE, finalAP |-> 0,
          allValid |-> FALSE]

InitFrom(worlds, dates, aps) ==
    /\ \E world \in worlds, date \in dates, ap \in aps :
          store = loadedState(world, date, ap)
    /\ isProcessing = FALSE
    /\ isLoading = FALSE
    /\ pc = "idle"
    /\ work = store
    /\ pending = <<>>
    /\ call = NoCall
    /\ rejected = NoReject
    /\ rid = NoDispatch
    /\ turns = 0
    /\ dispatches = 0
    /\ vap = NoRun
    /\ fn = NoFn

Init == InitFrom(Worlds, InitDates, 0..INITIAL_ACTION_POINTS)

Next ==
    \/ EndPlayerTurn
    \/ NarrativeDone
    \/ NarrativeThrows
    \/ EndPlayerTurnRejected

Spec == Init /\ [][Next]_vars

\* the store under the player's dispatches as well as the turn ends
NextStore ==
    \/ EndPlayerTurn
    \/ NarrativeDone
    \/ NarrativeThrows
    \/ EndPlayerTurnRejected
    \/ DeductAP
    \/ RestoreAP
    \/ AdvanceMonth

\* a scenario loaded in December, with the full action points
InitStore == InitFrom({"fall"}, {[year |-> 190, month |-> 12]},
                      {INITIAL_ACTION_POINTS})

SpecStore == InitStore /\ [][NextStore]_vars

\* the turn ends of a year and more in a saved game in which no AI faction
\* can act (no call is ever suspended), loaded in any month
SpecYear ==
    /\ InitFrom({"lull"}, {[year |-> 190, month |-> m] : m \in 1..12},
                {INITIAL_ACTION_POINTS})
    /\ [][EndPlayerTurnWithin(MaxYearTurns)]_vars

(***************************************************************************)
(* validateAPConsumption on every initial AP and every action sequence of  *)
(* at most MaxActions actions                                              *)
(***************************************************************************)
ActionSeqs == UNION {[1..k -> ActionTypes] : k \in 0..MaxActions}

InitAP ==
    /\ store = loadedState("contest", [year |-> 190, month |-> 1],
                           INITIAL_ACTION_POINTS)
    /\ isProcessing = FALSE
    /\ isLoading = FALSE
    /\ pc = "idle"
    /\ work = store
    /\ pending = <<>>
    /\ call = NoCall
    /\ rejected = NoReject
    /\ rid = NoDispatch
    /\ turns = 0
    /\ dispatches = 0
    /\ fn = NoFn
    /\ \E initialAP \in 0..INITIAL_ACTION_POINTS, actions \in ActionSeqs :
          vap = [NoRun EXCEPT !.initialAP = initialAP, !.actions = actions]

ValidateAP ==
    /\ ~vap.done
    /\ LET r == validateAPConsumption(vap.initialAP, vap.actions) IN
       vap' = [vap EXCEPT !.done = TRUE, !.finalAP = r.finalAP,
                          !.allValid = r.allValid]
    /\ UNCHANGED <<store, isProcessing, isLoading, pc, work, pending, call,
                   rejected, rid, turns, dispatches, fn>>

NextAP == ValidateAP

SpecAP == InitAP /\ [][NextAP]_vars

\* the game left as loaded while one of the calls of a function of
\* turnSystem, battle or domestic is about to be made
InitCalls(calls) ==
    /\ store = loadedState("contest", [year |-> 190, month |-> 1],
                           INITIAL_ACTION_POINTS)
    /\ isProcessing = FALSE
    /\ isLoading = FALSE
    /\ pc = "idle"
    /\ work = store
    /\ pending = <<>>
    /\ call = NoCall
    /\ rejected = NoReject
    /\ rid = NoDispatch
    /\ turns = 0
    /\ dispatches = 0
    /\ vap = NoRun
    /\ fn \in calls

\* a call about to be made, and the call once it has returned
calling(op, args) == [op |-> op, args |-> args, done |-> FALSE]

returned(result) ==
    [op |-> fn.op, args |-> fn.args, done |-> TRUE, result |-> result]

\* executeRecruitment: stocks on both sides of the cost of 1100 soldiers
RecruitCalls ==
    {calling("executeRecruitment",
             [cityResources |-> [gold |-> gold, population |-> population],
              executorLead |-> executorLead, executorCha |-> executorCha]) :
        gold \in {0, 2199, 2200, 5000}, population \in {0, 1099, 1100, 9000},
        executorLead \in {0, 50, 90}, executorCha \in {0, 19, 20, 40, 100}}

CallExecuteRecruitment ==
    /\ fn.op = "executeRecruitment"
    /\ ~fn.done
    /\ fn' = returned(executeRecruitment(fn.args.cityResources, fn.args.executorLead,
                                         fn.args.executorCha))
    /\ UNCHANGED <<store, isProcessing, isLoading, pc, work, pending, call,
                   rejected, rid, turns, dispatches, vap>>

SpecRecruit == InitCalls(RecruitCalls) /\ [][CallExecuteRecruitment]_vars

\* deductActionPoints(currentAP, actionType)
DeductCalls ==
    {calling("deductActionPoints", [currentAP |-> currentAP, actionType |-> actionType]) :
        currentAP \in 0..MaxAP, actionType \in ActionTypes}

CallDeductActionPoints ==
    /\ fn.op = "deductActionPoints"
    /\ ~fn.done
    /\ fn' = returned(deductActionPoints(fn.args.currentAP, fn.args.actionType))
    /\ UNCHANGED <<store, isProcessing, isLoading, pc, work, pending, call,
                   rejected, rid, turns, dispatches, vap>>

\* advanceMonth(current)
MonthCalls ==
    {calling("advanceMonth", [year |-> year, month |-> month]) :
        year \in 190..MaxYear, month \in 1..12}

CallAdvanceMonth ==
    /\ fn.op = "advanceMonth"
    /\ ~fn.done
    /\ fn' = returned(advanceMonth(fn.args))
    /\ UNCHANGED <<store, isProcessing, isLoading, pc, work, pending, call,
                   rejected, rid, turns, dispatches, vap>>

SpecMonth == InitCalls(MonthCalls) /\ [][CallAdvanceMonth]_vars

\* incrementGeneralAges(generals): maps of up to two generals, alive or not,
\* and the turn ends of a saved game with a dead general
AgedGenerals ==
    {general("dz", 70, 75, 55, 30, 20, age, isAlive, "ly", troops) :
        age \in 15..MaxAge, isAlive \in BOOLEAN, troops \in {0, 500}}

GeneralMaps ==
    UNION {[ids -> AgedGenerals] : ids \in SUBSET {"dongzhuo", "lvbu"}}

AgeCalls == {calling("incrementGeneralAges", generals) : generals \in GeneralMaps}

CallIncrementGeneralAges ==
    /\ fn.op = "incrementGeneralAges"
    /\ ~fn.done
    /\ fn' = returned(incrementGeneralAges(fn.args))
    /\ UNCHANGED <<store, isProcessing, isLoading, pc, work, pending, call,
                   rejected, rid, turns, dispatches, vap>>

InitAges ==
    \/ InitCalls(AgeCalls)
    \/ InitFrom({"rush"}, InitDates, {INITIAL_ACTION_POINTS})

\* either the function is called on its own or the saved game is played
NextAges ==
    \/ CallIncrementGeneralAges
    \/ fn = NoFn /\ EndPlayerTurn
    \/ fn = NoFn /\ NarrativeDone
    \/ fn = NoFn /\ EndPlayerTurnRejected

SpecAges == InitAges /\ [][NextAges]_vars

\* executeDuelCheck: war values on both sides of the two thresholds and
\* random values on both sides of the three probabilities
DuelCalls ==
    {calling("executeDuelCheck",
             [attackerWar |-> attackerWar, defenderWar |-> defenderWar,
              attackerId |-> "attacker", defenderId |-> "defender",
              duelRandom |-> duelRandom, instantKillRandom |-> instantKillRandom,
              winnerRandom |-> winnerRandom]) :
        attackerWar \in {40, 50, 60, 61, 70, 71},
        defenderWar \in {40, 50, 60, 61, 70, 71},
        duelRandom \in {49, 50}, instantKillRandom \in {9, 10},
        winnerRandom \in {499, 500}}

CallExecuteDuelCheck ==
    /\ fn.op = "executeDuelCheck"
    /\ ~fn.done
    /\ fn' = returned(executeDuelCheck(fn.args.attackerWar, fn.args.defenderWar,
                                       fn.args.attackerId, fn.args.defenderId,
                                       fn.args.duelRandom, fn.args.instantKillRandom,
                                       fn.args.winnerRandom))
    /\ UNCHANGED <<store, isProcessing, isLoading, pc, work, pending, call,
                   rejected, rid, turns, dispatches, vap>>

SpecDuel == InitCalls(DuelCalls) /\ [][CallExecuteDuelCheck]_vars

\* executeDevelopment: gold on both sides of the cost, values from 0 up to
\* maxValue for a small maximum and for COMMERCE_MAX
SmallMaxValue == 10
DevelopValues ==
    {[currentValue |-> v, maxValue |-> SmallMaxValue] : v \in {0, 3, 9, 10}}
    \cup {[currentValue |-> v, maxValue |-> COMMERCE_MAX] : v \in {0, 990, 998, 999}}

DevelopCalls ==
    {calling("executeDevelopment",
             [currentGold |-> currentGold, currentValue |-> values.currentValue,
              executorPol |-> executorPol, maxValue |-> values.maxValue,
              randomValue |-> randomValue]) :
        currentGold \in {0, 99, 100, 101}, values \in DevelopValues,
        executorPol \in {0, 4, 5, 23, 100}, randomValue \in 1..5}

CallExecuteDevelopment ==
    /\ fn.op = "executeDevelopment"
    /\ ~fn.done
    /\ fn' = returned(executeDevelopment(fn.args.currentGold, fn.args.currentValue,
                                         fn.args.executorPol, fn.args.maxValue,
                                         fn.args.randomValue))
    /\ UNCHANGED <<store, isProcessing, isLoading, pc, work, pending, call,
                   rejected, rid, turns, dispatches, vap>>

SpecDevelop == InitCalls(DevelopCalls) /\ [][CallExecuteDevelopment]_vars

SpecDeduct == InitCalls(DeductCalls) /\ [][CallDeductActionPoints]_vars

(***************************************************************************)
(* Claims about the turn end                                               *)
(***************************************************************************)
\* the living generals are one year older, the others unchanged
agedFrom(before, after) ==
    \A id \in DOMAIN before :
        after[id] = IF before[id].isAlive
                    THEN [before[id] EXCEPT !.age = @ + 1]
                    ELSE before[id]

\* C1: a processed endPlayerTurn call applies the AI effects, then advances
\* the calendar by one month, then adds the monthly gold income to every city,
\* then increments the ages only if the new month is January, then adds the
\* grain only if the new month is July, then narrates the new events, then
\* calls autoSave, and only then restores the action points to 3 and the phase
\* to player; the gold and the grain income are computed from the cities as
\* they are after the AI effects of the same turn.
C1_TurnEndOrder ==
    call.status = "done" =>
        LET input == call.seen.input
            afterAI == call.seen.afterAI
            saved == call.saved
            newDate == advanceMonth(input.currentDate).newDate
        IN /\ saved.currentDate = newDate
           /\ \A cityId \in DOMAIN afterAI.cities :
                LET before == afterAI.cities[cityId]
                    now == saved.cities[cityId]
                    pol == governorPolOf(before, afterAI.generals)
                IN /\ now.resources.gold = before.resources.gold
                        + calculateMonthlyIncome(before.resources.commerce,
                                                 before.resources.population, pol)
                   /\ now.resources.grain = before.resources.grain
                        + (IF newDate.month = 7
                           THEN calculateYearlyGrain(before.resources.agriculture,
                                                     before.resources.population, pol)
                           ELSE 0)
           /\ IF newDate.month = 1
              THEN agedFrom(afterAI.generals, saved.generals)
              ELSE saved.generals = afterAI.generals
           /\ Len(saved.eventLog) = Len(input.eventLog) + Len(call.seen.events)
           /\ \A i \in 1..Len(call.seen.events) :
                saved.eventLog[i] =
                    [call.seen.events[i] EXCEPT !.narrative = call.narrated]
           /\ saved.actionPoints = input.actionPoints
           /\ saved.phase = input.phase
           /\ call.returned = [saved EXCEPT !.actionPoints = 3, !.phase = "player"]

\* a July turn end whose AI effects changed a city's gold and grain income,
\* entered with fewer than 3 action points and with events to narrate
C1_Witness ==
    /\ call.status = "done"
    /\ call.saved.currentDate.month = 7
    /\ call.seen.input.actionPoints < 3
    /\ Len(call.seen.events) > 0
    /\ \E cityId \in DOMAIN call.seen.input.cities :
         /\ calculateMonthlyGoldIncome(call.seen.afterAI)[cityId]
              # calculateMonthlyGoldIncome(call.seen.input)[cityId]
         /\ distributeJulyGrain(call.seen.afterAI)[cityId]
              # distributeJulyGrain(call.seen.input)[cityId]

C3_InFlightGuard ==
    /\ [][isProcessing =>
             /\ turns' = turns
             /\ rejected' # rejected =>
                   /\ rejected'.seen
                   /\ rejected'.returned = rejected'.input
                   /\ UNCHANGED <<store, isProcessing, isLoading, pc, work,
                                  pending, call>>]_vars
    /\ [](call.status = "done" /\ rejected.seen =>
             call.returned.currentDate =
                 advanceMonth(call.seen.input.currentDate).newDate)

\* a call was rejected while another one was suspended, and that one completed
C3_Witness ==
    /\ rejected.seen
    /\ call.status = "done"
    /\ turns = 1
    /\ call.returned.currentDate.month = 7

\* the cost the claim gives to the player's action types
claimedAPCost(actionType) == IF actionType = "campaign" THEN 2 ELSE 1

RECURSIVE prefixCost(_, _)
prefixCost(actions, k) ==
    IF k = 0 THEN 0 ELSE prefixCost(actions, k - 1) + claimedAPCost(actions[k])

\* C4: for any initial AP in 0..3 and any sequence of domestic(1) /
\* movement(1) / campaign(2) actions, validateAPConsumption returns
\* finalAP >= 0; allValid holds exactly when every action could be paid in
\* turn; processing stops at the first action whose cost exceeds the remaining
\* AP, finalAP being the AP remaining before that action.
C4_ValidateAP ==
    vap.done =>
        LET unpaid == {k \in 1..Len(vap.actions) :
                          prefixCost(vap.actions, k) > vap.initialAP}
        IN /\ vap.finalAP >= 0
           /\ vap.allValid <=> unpaid = {}
           /\ unpaid = {} =>
                 vap.finalAP = vap.initialAP
                               - prefixCost(vap.actions, Len(vap.actions))
           /\ \A k \in unpaid :
                 (\A j \in unpaid : k <= j) =>
                     vap.finalAP = vap.initialAP - prefixCost(vap.actions, k - 1)

\* a run that stops at a campaign it cannot pay, with one point left and a
\* payable action after it
C4_Witness ==
    /\ vap.done
    /\ ~vap.allValid
    /\ vap.finalAP = 1
    /\ vap.initialAP = 3
    /\ vap.actions = <<"domestic", "movement", "campaign", "domestic">>

\* C5: in every state reachable by DEDUCT_AP, RESTORE_AP, ADVANCE_MONTH and
\* completed endPlayerTurn calls, actionPoints is in 0..3 and the month is in
\* 1..12, and the year never decreases.
C5_StoreRanges ==
    /\ [](/\ store.actionPoints \in 0..3
          /\ store.currentDate.month \in 1..12
          /\ work.actionPoints \in 0..3
          /\ work.currentDate.month \in 1..12)
    /\ [][store'.currentDate.year >= store.currentDate.year]_vars

\* a DEDUCT_AP of more than the points left, after a turn end and a dispatch
\* that took the calendar into the next year
C5_Witness ==
    /\ rid.type = "DEDUCT_AP"
    /\ rid.ap < getAPCost(rid.payload)
    /\ store.actionPoints = 0
    /\ store.currentDate.year > 190
    /\ turns > 0

(***************************************************************************)
(* Claims about the AI decisions                                           *)
(***************************************************************************)
\* the cost the claim gives to the AI's action types
claimedAICost(type) == IF type = "attack" THEN 2 ELSE 1

RECURSIVE totalAICost(_)
totalAICost(actions) ==
    IF actions = <<>> THEN 0
    ELSE claimedAICost(Head(actions).type) + totalAICost(Tail(actions))

\* the city an action is queued for
sourceOf(action) == IF action.type = "attack" THEN action.fromCity ELSE action.cityId

\* the positions of a city in a faction's cities list
positionsOf(cities, cityId) == {i \in 1..Len(cities) : cities[i] = cityId}

\* C6: for every faction and every game state the actions returned by
\* makeDecision cost at most 3 action points in total (recruit 1, attack 2,
\* develop 1): the budget is shared by the faction's cities in faction.cities
\* order, is not reset per city, and nothing is queued once it has reached 0.
C6_SharedBudget ==
    \A factionId \in DOMAIN store.factions :
        LET actions == makeDecision(factionId, store)
            cities == store.factions[factionId].cities
        IN /\ totalAICost(actions) <= 3
           /\ \A i, j \in 1..Len(actions) :
                i < j => \E m \in positionsOf(cities, sourceOf(actions[i])),
                            n \in positionsOf(cities, sourceOf(actions[j])) : m < n
           /\ \A k \in 1..Len(actions) :
                totalAICost(SubSeq(actions, 1, k)) >= 3 => k = Len(actions)

\* a faction whose first two cities have used 2 points, leaving without an
\* action a third city that would attack on a fresh budget
C6_Witness ==
    \E factionId \in DOMAIN store.factions :
        LET actions == makeDecision(factionId, store)
            fac == store.factions[factionId]
        IN /\ Len(fac.cities) = 3
           /\ totalAICost(actions) = 2
           /\ \A k \in 1..Len(actions) : sourceOf(actions[k]) # fac.cities[3]
           /\ attackChoice(fac.cities[3], fac, store, 3)[1] # "none"

\* the points makeDecision has left when it comes to the city at position i
apLeftAt(actions, cities, i) ==
    LET earlier(a) == \E m \in positionsOf(cities, sourceOf(a)) : m < i
    IN 3 - totalAICost(SelectSeq(actions, earlier))

\* a living general is stationed in the city
hasLivingGeneral(cityId, gs) ==
    \E k \in 1..Len(gs.cities[cityId].stationedGenerals) :
        LET id == gs.cities[cityId].stationedGenerals[k] IN
        id \in DOMAIN gs.generals /\ gs.generals[id].isAlive

\* the three conditions of the claim for a city, ap points being left
recruitDue(cityId, gs, ap) ==
    /\ shouldRecruit(cityId, gs)
    /\ ap >= 1
    /\ gs.cities[cityId].resources.gold >= 1000
    /\ gs.cities[cityId].resources.population >= 500
    /\ hasLivingGeneral(cityId, gs)

attackDue(cityId, factionId, gs, ap) ==
    LET strongest == getStrongestGeneral(gs.cities[cityId], gs.generals) IN
    /\ ap >= 2
    /\ findBestAttackTarget(gs.cities[cityId], gs.factions[factionId], gs)
          .targetCityId # "none"
    /\ strongest # "none"
    /\ gs.generals[strongest].troops >= 1000

developDue(cityId, gs, ap) ==
    /\ ap >= 1
    /\ gs.cities[cityId].resources.gold >= 100
    /\ hasLivingGeneral(cityId, gs)

\* C7: makeDecision queues at most one action per owned city, by the priority
\* recruit, attack, develop: a recruit iff shouldRecruit holds, 1 AP remains,
\* gold >= 1000, population >= 500 and a living stationed general exists;
\* otherwise an attack iff 2 AP remain, findBestAttackTarget returns a target
\* and the strongest general has troops >= 1000; otherwise a develop iff 1 AP
\* remains, gold >= 100 and a living stationed general exists; a city for
\* which none holds yields no action and consumes no AP.
C7_CityPriority ==
    \A factionId \in DOMAIN store.factions :
        LET actions == makeDecision(factionId, store)
            cities == store.factions[factionId].cities
            typeAt(cityId) == {actions[k].type : k \in
                                  {n \in 1..Len(actions) :
                                      sourceOf(actions[n]) = cityId}}
        IN /\ \A k \in 1..Len(actions) :
                positionsOf(cities, sourceOf(actions[k])) # {}
           /\ \A i \in 1..Len(cities) :
                LET cityId == cities[i]
                    ap == apLeftAt(actions, cities, i)
                    recruit == recruitDue(cityId, store, ap)
                    attack == ~recruit /\ attackDue(cityId, factionId, store, ap)
                    develop == ~recruit /\ ~attack /\ developDue(cityId, store, ap)
                IN /\ Cardinality({k \in 1..Len(actions) :
                                      sourceOf(actions[k]) = cityId}) <= 1
                   /\ "recruit" \in typeAt(cityId) <=> recruit
                   /\ "attack" \in typeAt(cityId) <=> attack
                   /\ "develop" \in typeAt(cityId) <=> develop

\* a city where both a recruit and an attack are due (the recruit is queued)
\* and a city that yields no action although points remain
C7_Witness ==
    /\ \E factionId \in DOMAIN store.factions :
         LET actions == makeDecision(factionId, store)
             cities == store.factions[factionId].cities
         IN \E i \in 1..Len(cities) :
               /\ recruitDue(cities[i], store, apLeftAt(actions, cities, i))
               /\ attackDue(cities[i], factionId, store,
                            apLeftAt(actions, cities, i))
               /\ \E k \in 1..Len(actions) :
                     actions[k].type = "recruit" /\ actions[k].cityId = cities[i]
    /\ \E factionId \in DOMAIN store.factions :
         LET actions == makeDecision(factionId, store)
             cities == store.factions[factionId].cities
         IN \E j \in 1..Len(cities) :
               /\ apLeftAt(actions, cities, j) > 0
               /\ hasLivingGeneral(cities[j], store)
               /\ \A k \in 1..Len(actions) : sourceOf(actions[k]) # cities[j]

\* the target is connected to the source, hostile to the faction and can be
\* taken with probability >= 0.6
eligibleTarget(factionId, fromCityId, targetCityId, gs) ==
    LET owner == gs.cities[targetCityId].faction
        diplomacy == gs.factions[factionId].diplomacy
        p == evaluateAttackTarget(gs.cities[fromCityId], targetCityId, gs)
                .successProbability
    IN /\ \E k \in 1..Len(gs.cities[fromCityId].connectedCities) :
             gs.cities[fromCityId].connectedCities[k] = targetCityId
       /\ owner # factionId
       /\ owner \in DOMAIN diplomacy
       /\ diplomacy[owner] = "hostile"
       /\ p[1] * 10 >= 6 * p[2]

\* the composite score a = <<q, r, d>> is strictly higher than b
higherScore(a, b) ==
    IF a[1] # b[1] THEN a[1] > b[1] ELSE CmpFrac(a[2], a[3], b[2], b[3]) = 1

\* C8: when makeDecision queues an attack from C on T, T is connected to C,
\* the faction's diplomacy toward T's owner is hostile, the success
\* probability of (C, T) is >= 0.6 and no other connected hostile city with
\* success probability >= 0.6 has a strictly higher composite score; the
\* faction's own, neutral and allied cities are never targeted.
C8_AttackTarget ==
    \A factionId \in DOMAIN store.factions :
        LET actions == makeDecision(factionId, store) IN
        \A k \in 1..Len(actions) :
            actions[k].type = "attack" =>
                LET from == actions[k].fromCity
                    to == actions[k].toCity
                    score(t) == evaluateAttackTarget(store.cities[from], t, store).score
                IN /\ eligibleTarget(factionId, from, to, store)
                   /\ \A other \in DOMAIN store.cities :
                        eligibleTarget(factionId, from, other, store) =>
                            ~higherScore(score(other), score(to))

\* an attack is queued on the better of two eligible targets, the source
\* being connected also to a city of the attacking faction
C8_Witness ==
    \E factionId \in DOMAIN store.factions :
        LET actions == makeDecision(factionId, store) IN
        \E k \in 1..Len(actions) :
            /\ actions[k].type = "attack"
            /\ LET from == actions[k].fromCity
                   to == actions[k].toCity
                   score(t) == evaluateAttackTarget(store.cities[from], t, store).score
                   connected == {store.cities[from].connectedCities[n] :
                                    n \in 1..Len(store.cities[from].connectedCities)}
               IN /\ \E other \in connected :
                       /\ eligibleTarget(factionId, from, other, store)
                       /\ higherScore(score(to), score(other))
                  /\ \E mine \in connected : store.cities[mine].faction = factionId

(***************************************************************************)
(* Claims about the application of the AI attacks                          *)
(***************************************************************************)
\* the generals stationed in a city, as a set
stationedIn(gs, cityId) ==
    {gs.cities[cityId].stationedGenerals[k] :
        k \in 1..Len(gs.cities[cityId].stationedGenerals)}

\* the state before (s) and after (t) the k-th state update of the last turn
beforeUpdate(k) ==
    applyAIStateUpdates(call.seen.input, SubSeq(call.seen.updates, 1, k - 1))

afterUpdate(k) ==
    applyAIStateUpdates(call.seen.input, SubSeq(call.seen.updates, 1, k))

\* the city goes from its previous owner to the attacking faction
cityTransferred(s, t, update) ==
    LET old == s.cities[update.toCityId].faction IN
    /\ old # update.factionId =>
          positionsOf(t.factions[old].cities, update.toCityId) = {}
    /\ positionsOf(t.factions[update.factionId].cities, update.toCityId) # {}
    /\ t.cities[update.toCityId].faction = update.factionId

\* the attacking general goes from the source city to the captured city
attackerRelocated(t, update) ==
    /\ update.generalId \notin stationedIn(t, update.fromCityId)
    /\ update.generalId \in stationedIn(t, update.toCityId)
    /\ t.generals[update.generalId].currentCity = update.toCityId

\* the generals of another faction go to the previous owner's first remaining
\* city, if there is one
foreignersEvicted(s, t, update) ==
    LET old == s.cities[update.toCityId].faction
        notTaken(c) == c # update.toCityId
        remaining == SelectSeq(s.factions[old].cities, notTaken)
    IN remaining # <<>> =>
          \A g \in stationedIn(s, update.toCityId) :
              s.generals[g].faction # update.factionId =>
                  /\ g \notin stationedIn(t, update.toCityId)
                  /\ g \in stationedIn(t, remaining[1])
                  /\ t.generals[g].currentCity = remaining[1]

\* C9: applying a won AI attack transfers the target city to the attacking
\* faction, moves the attacking general from the source city into the captured
\* city (stationedGenerals and currentCity), and moves every stationed general
\* of another faction to the previous owner's first remaining city, if there
\* is one; a lost attack transfers nothing.
C9_AttackApplied ==
    call.status # "none" =>
        \A k \in 1..Len(call.seen.updates) :
            LET update == call.seen.updates[k] IN
            update.type = "attack" =>
                IF update.result = "win"
                THEN /\ cityTransferred(beforeUpdate(k), afterUpdate(k), update)
                     /\ attackerRelocated(afterUpdate(k), update)
                     /\ foreignersEvicted(beforeUpdate(k), afterUpdate(k), update)
                ELSE afterUpdate(k) = beforeUpdate(k)

\* C9, for the attacks led by a general of the attacking faction
C9_OwnGeneral ==
    call.status # "none" =>
        \A k \in 1..Len(call.seen.updates) :
            LET update == call.seen.updates[k] IN
            update.type = "attack" =>
                IF update.result = "win"
                THEN /\ cityTransferred(beforeUpdate(k), afterUpdate(k), update)
                     /\ beforeUpdate(k).generals[update.generalId].faction
                           = update.factionId
                        => attackerRelocated(afterUpdate(k), update)
                     /\ foreignersEvicted(beforeUpdate(k), afterUpdate(k), update)
                ELSE afterUpdate(k) = beforeUpdate(k)

\* a won attack that evicted a defender, and a lost one, have been applied
C9_Witness ==
    /\ call.status = "done"
    /\ \E k \in 1..Len(call.seen.updates) :
         LET update == call.seen.updates[k] IN
         /\ update.type = "attack"
         /\ update.result = "win"
         /\ \E g \in stationedIn(beforeUpdate(k), update.toCityId) :
               g \notin stationedIn(afterUpdate(k), update.toCityId)

\* C10: city ownership stays consistent across turn ends: after any number of
\* completed turn ends each city id appears in the cities list of exactly one
\* faction, exactly once, and that faction is the city's faction field.
C10_Ownership ==
    \A gs \in {store, work} :
        \A cityId \in DOMAIN gs.cities :
            \A factionId \in DOMAIN gs.factions :
                Cardinality(positionsOf(gs.factions[factionId].cities, cityId))
                    = IF gs.cities[cityId].faction = factionId THEN 1 ELSE 0

\* two factions captured the same city in one turn end
C10_Witness ==
    /\ call.status = "done"
    /\ \E i, j \in 1..Len(call.seen.updates) :
         /\ i < j
         /\ call.seen.updates[i].type = "attack"
         /\ call.seen.updates[j].type = "attack"
         /\ call.seen.updates[i].result = "win"
         /\ call.seen.updates[j].result = "win"
         /\ call.seen.updates[i].toCityId = call.seen.updates[j].toCityId
         /\ store.cities[call.seen.updates[j].toCityId].faction
               = call.seen.updates[j].factionId

(***************************************************************************)
(* C11: in every state reached from the loaded scenario through turn ends, *)
(* the governor of each city, if set, is one of the generals stationed in  *)
(* that city; in particular for the source city of a won attack and for a  *)
(* captured city.                                                          *)
(***************************************************************************)
governorStationed(c) ==
    c.governor # "none" =>
        \E i \in 1..Len(c.stationedGenerals) : c.stationedGenerals[i] = c.governor

C11_GovernorStationed ==
    \A cityId \in DOMAIN store.cities : governorStationed(store.cities[cityId])

\* the loaded scenario satisfies the invariant
C11_InitiallyStationed ==
    turns = 0 => C11_GovernorStationed

(***************************************************************************)
(* C12: the GameState object passed to endPlayerTurn is, after the call,   *)
(* identical to what it was before the call, whether or not an AI faction  *)
(* produced a state update in that turn.                                   *)
(***************************************************************************)
C12_PrivateCopy ==
    call.status # "none" => call.seen.inputAfter = call.seen.input

\* the same for the turns in which the AI produced at least one state update
C12_CopiedWhenUpdated ==
    (call.status # "none" /\ Len(call.seen.updates) > 0)
        => call.seen.inputAfter = call.seen.input

\* a completed turn whose state updates changed the cities
C12_Witness ==
    /\ call.status = "done"
    /\ Len(call.seen.updates) > 0
    /\ call.seen.settled.cities # call.seen.input.cities

(***************************************************************************)
(* C13: for every action that makeDecision queues for an AI faction in a   *)
(* turn, executeAITurns appends exactly one event (domestic for recruit    *)
(* and develop, battle for attack) and exactly one matching state update,  *)
(* in queue order: the events, the state updates and the queued actions    *)
(* of a turn are equally many.                                             *)
(***************************************************************************)
queuedIn(gs) == planOf(FactionOrder, gs, gs.currentFaction)

eventTypeFor(actionType) ==
    IF actionType = "attack" THEN "battle" ELSE "domestic"

C13_OneEventPerAction ==
    call.status # "none" =>
        /\ Len(call.seen.events) = Len(queuedIn(call.seen.input))
        /\ Len(call.seen.updates) = Len(queuedIn(call.seen.input))
        /\ \A i \in 1..Len(queuedIn(call.seen.input)) :
              /\ call.seen.events[i].type
                    = eventTypeFor(queuedIn(call.seen.input)[i].action.type)
              /\ call.seen.updates[i].type = queuedIn(call.seen.input)[i].action.type
              /\ call.seen.updates[i].factionId = queuedIn(call.seen.input)[i].factionId

\* the events and the state updates of a turn correspond one to one
C13_EventPerUpdate ==
    call.status # "none" =>
        /\ Len(call.seen.events) = Len(call.seen.updates)
        /\ \A i \in 1..Len(call.seen.updates) :
              call.seen.events[i].type = eventTypeFor(call.seen.updates[i].type)

(***************************************************************************)
(* C14: grain is distributed once per year, in month 7 only: a turn end    *)
(* adds grain to a city exactly when its new month is 7, the amount being  *)
(* yearlyGrain(agriculture, population, governor's pol or null) of that    *)
(* city; at every other turn end the grain of each city is unchanged; in   *)
(* any 12 consecutive turn ends this happens exactly once.                 *)
(***************************************************************************)
\* the grain a city is due at a turn end whose new month is newMonth
grainDue(c, generals, newMonth) ==
    IF newMonth = 7
    THEN calculateYearlyGrain(c.resources.agriculture, c.resources.population,
                              governorPolOf(c, generals))
    ELSE 0

\* one turn end: what the call has added to the grain of each city
C14_GrainPerTurn ==
    call.status # "none" =>
        \A cityId \in DOMAIN call.seen.input.cities :
            call.seen.settled.cities[cityId].resources.grain
              = call.seen.input.cities[cityId].resources.grain
                + grainDue(call.seen.afterAI.cities[cityId], call.seen.afterAI.generals,
                           call.seen.settled.currentDate.month)

\* months counted from January of the year 0
monthIndex(date) == date.year * 12 + date.month - 1

\* the Julys among the last n months up to and including date
julysIn(date, n) ==
    Cardinality({k \in (monthIndex(date) - n + 1)..monthIndex(date) : k % 12 = 6})

\* the turn ends made since the saved game was loaded
C14_GrainPerYear ==
    \A cityId \in DOMAIN store.cities :
        /\ store.cities[cityId].resources.grain
             = worldCities("lull")[cityId].resources.grain
               + julysIn(store.currentDate, turns)
                 * grainDue(worldCities("lull")[cityId], worldGenerals("lull"), 7)
        /\ turns = 12 =>
             store.cities[cityId].resources.grain
               = worldCities("lull")[cityId].resources.grain
                 + grainDue(worldCities("lull")[cityId], worldGenerals("lull"), 7)

C14_JulyGrain == C14_GrainPerTurn /\ C14_GrainPerYear

C14_Witness ==
    /\ turns = 12
    /\ store.currentDate.month = 3
    /\ store.cities.ly.resources.grain > worldCities("lull").ly.resources.grain
    /\ call.status = "done"
    /\ call.seen.settled.cities.ly.resources.grain
         = call.seen.input.cities.ly.resources.grain

(***************************************************************************)
(* C15: if the narrative generation fails for a turn that produced AI      *)
(* events, the turn-end sequence is not halted: the events are still added *)
(* to the event log, without narrative text, autoSave is still called,     *)
(* the action points are restored to 3, the phase returns to player, and   *)
(* the calendar and income effects of the turn are kept.                   *)
(***************************************************************************)
narrativeFailed ==
    call.status = "done" /\ ~call.narrated /\ Len(call.seen.events) > 0

\* log is oldLog with the events of the turn added, none with a narrative
\* (whatever the position they are added at)
loggedWithoutNarrative(log, oldLog, events) ==
    /\ Len(log) = Len(oldLog) + Len(events)
    /\ \A i \in 1..Len(events) :
          /\ events[i].narrative = FALSE
          /\ \E j \in 1..Len(log) : log[j] = events[i]
    /\ \A j \in 1..Len(oldLog) : \E k \in 1..Len(log) : log[k] = oldLog[j]

C15_NarrativeFailure ==
    narrativeFailed =>
        /\ loggedWithoutNarrative(call.returned.eventLog, call.seen.input.eventLog,
                                  call.seen.events)
        /\ call.saved.eventLog = call.returned.eventLog
        /\ call.saved.currentDate = call.seen.settled.currentDate
        /\ call.saved.cities = call.seen.settled.cities
        /\ call.returned.actionPoints = 3
        /\ call.returned.phase = "player"
        /\ call.returned.currentDate = call.seen.settled.currentDate
        /\ call.returned.currentDate # call.seen.input.currentDate
        /\ call.returned.cities = call.seen.settled.cities
        /\ call.returned.generals = call.seen.settled.generals
        /\ call.returned.factions = call.seen.settled.factions
        /\ store = call.returned
        /\ ~isProcessing
        /\ ~isLoading

\* a failed narrative in a turn with income, after a turn that logged events
C15_Witness ==
    /\ narrativeFailed
    /\ Len(call.seen.input.eventLog) > 0
    /\ \E cityId \in DOMAIN store.cities :
          call.seen.settled.cities[cityId].resources.gold
            > call.seen.afterAI.cities[cityId].resources.gold

(***************************************************************************)
(* C16: deductActionPoints(current, actionType) with current below the     *)
(* cost fails without changing anything (success = false, deducted = 0,    *)
(* remainingAP = current); with current at least the cost it succeeds with *)
(* deducted = cost and remainingAP = current - cost; the cost is 1 for     *)
(* domestic, 1 for movement and 2 for campaign.                            *)
(***************************************************************************)
C16_DeductActionPoints ==
    (fn.op = "deductActionPoints" /\ fn.done) =>
        IF fn.args.currentAP < claimedAPCost(fn.args.actionType)
        THEN /\ fn.result.success = FALSE
             /\ fn.result.deducted = 0
             /\ fn.result.remainingAP = fn.args.currentAP
        ELSE /\ fn.result.success = TRUE
             /\ fn.result.deducted = claimedAPCost(fn.args.actionType)
             /\ fn.result.remainingAP
                  = fn.args.currentAP - claimedAPCost(fn.args.actionType)

\* a campaign refused with one point left
C16_Witness ==
    /\ fn.op = "deductActionPoints"
    /\ fn.done
    /\ fn.args = [currentAP |-> 1, actionType |-> "campaign"]
    /\ ~fn.result.success

(***************************************************************************)
(* C17: advanceMonth maps {y, 12} to {y+1, 1} with yearChanged = true and  *)
(* {y, m} for m in 1..11 to {y, m+1} with yearChanged = false; isJanuary   *)
(* is true exactly when the new month is 1 (only when advancing from month *)
(* 12) and isJuly exactly when the new month is 7 (only from month 6).     *)
(***************************************************************************)
C17_AdvanceMonth ==
    (fn.op = "advanceMonth" /\ fn.done) =>
        /\ fn.args.month = 12 =>
              /\ fn.result.newDate = [year |-> fn.args.year + 1, month |-> 1]
              /\ fn.result.yearChanged = TRUE
        /\ fn.args.month \in 1..11 =>
              /\ fn.result.newDate = [year |-> fn.args.year,
                                      month |-> fn.args.month + 1]
              /\ fn.result.yearChanged = FALSE
        /\ fn.result.isJanuary = (fn.result.newDate.month = 1)
        /\ fn.result.isJanuary = (fn.args.month = 12)
        /\ fn.result.isJuly = (fn.result.newDate.month = 7)
        /\ fn.result.isJuly = (fn.args.month = 6)

\* the step from December into the next year
C17_Witness ==
    /\ fn.op = "advanceMonth"
    /\ fn.done
    /\ fn.args = [year |-> 191, month |-> 12]
    /\ fn.result.newDate = [year |-> 192, month |-> 1]

(***************************************************************************)
(* C18: incrementGeneralAges returns a map with the same general ids in    *)
(* which every general with isAlive = true has its age increased by        *)
(* exactly 1, every general with isAlive = false is unchanged, and all the *)
(* other fields of every general are unchanged; at a turn end it is        *)
(* applied exactly when the new month is January.                          *)
(***************************************************************************)
sameButAge(before, after) ==
    /\ after.faction = before.faction
    /\ after.attributes = before.attributes
    /\ after.isAlive = before.isAlive
    /\ after.currentCity = before.currentCity
    /\ after.troops = before.troops
    /\ DOMAIN after = DOMAIN before

agesIncremented(before, after) ==
    /\ DOMAIN after = DOMAIN before
    /\ \A id \in DOMAIN before :
          /\ sameButAge(before[id], after[id])
          /\ before[id].isAlive => after[id].age = before[id].age + 1
          /\ ~before[id].isAlive => after[id] = before[id]

C18_IncrementGeneralAges ==
    /\ (fn.op = "incrementGeneralAges" /\ fn.done) =>
          agesIncremented(fn.args, fn.result)
    /\ call.status # "none" =>
          IF call.seen.settled.currentDate.month = 1
          THEN agesIncremented(call.seen.afterAI.generals, call.seen.settled.generals)
          ELSE call.seen.settled.generals = call.seen.afterAI.generals

\* a map with a living and a dead general, and a January turn end with both
C18_WitnessCall ==
    /\ fn.op = "incrementGeneralAges"
    /\ fn.done
    /\ DOMAIN fn.args = {"dongzhuo", "lvbu"}
    /\ fn.args.dongzhuo.isAlive
    /\ ~fn.args.lvbu.isAlive

C18_Witness ==
    /\ call.status = "done"
    /\ call.seen.settled.currentDate.month = 1
    /\ ~call.seen.afterAI.generals.huaxiong.isAlive
    /\ call.seen.settled.generals.lvbu.age = call.seen.afterAI.generals.lvbu.age + 1

(***************************************************************************)
(* C19: executeDuelCheck resolves at most one of instant kill, duel and    *)
(* neither, the instant kill first: the result is an instant kill iff      *)
(* |attackerWar - defenderWar| > 20 and instantKillRandom < 0.01;          *)
(* otherwise a duel iff |attackerWar - defenderWar| <= 10 and              *)
(* duelRandom < 0.05; otherwise nothing is triggered and no winner is      *)
(* reported.  The winner of an instant kill is the one with the higher     *)
(* war; the winner of a duel is the one with the higher war or, on equal   *)
(* war, the attacker iff winnerRandom < 0.5.                               *)
(***************************************************************************)
warGap(args) ==
    IF args.attackerWar >= args.defenderWar
    THEN args.attackerWar - args.defenderWar
    ELSE args.defenderWar - args.attackerWar

higherWar(args) ==
    IF args.attackerWar > args.defenderWar THEN args.attackerId ELSE args.defenderId

claimedInstantKill(args) == warGap(args) > 20 /\ args.instantKillRandom < 10

claimedDuel(args) ==
    ~claimedInstantKill(args) /\ warGap(args) <= 10 /\ args.duelRandom < 50

C19_DuelCheck ==
    (fn.op = "executeDuelCheck" /\ fn.done) =>
        /\ (fn.result.triggered /\ fn.result.instantKill) <=> claimedInstantKill(fn.args)
        /\ (fn.result.triggered /\ ~fn.result.instantKill) <=> claimedDuel(fn.args)
        /\ ~fn.result.triggered => ~fn.result.instantKill
        /\ ("winner" \in DOMAIN fn.result) <=> fn.result.triggered
        /\ claimedInstantKill(fn.args) => fn.result.winner = higherWar(fn.args)
        /\ claimedDuel(fn.args) =>
              fn.result.winner =
                 IF fn.args.attackerWar # fn.args.defenderWar THEN higherWar(fn.args)
                 ELSE IF fn.args.winnerRandom < 500 THEN fn.args.attackerId
                 ELSE fn.args.defenderId

\* a difference of exactly 20 with both random values below their
\* probabilities: neither an instant kill nor a duel
C19_Witness ==
    /\ fn.op = "executeDuelCheck"
    /\ fn.done
    /\ fn.args.attackerWar = 60
    /\ fn.args.defenderWar = 40
    /\ fn.args.instantKillRandom = 9
    /\ fn.args.duelRandom = 49
    /\ ~fn.result.triggered

(***************************************************************************)
(* C20: executeDevelopment with gold < 100 returns success = false,        *)
(* goldSpent = 0, valueIncrease = 0 and newValue = currentValue; with      *)
(* gold >= 100 it returns success = true, goldSpent = 100, newValue =      *)
(* min(currentValue + floor(executorPol/5) + rand, maxValue), never above  *)
(* maxValue, and valueIncrease = newValue - currentValue with              *)
(* 0 <= valueIncrease <= floor(executorPol/5) + 5, for currentValue in     *)
(* 0..maxValue and rand in 1..5.                                           *)
(***************************************************************************)
claimedNewValue(args) ==
    IF args.currentValue + (args.executorPol \div 5) + args.randomValue
          <= args.maxValue
    THEN args.currentValue + (args.executorPol \div 5) + args.randomValue
    ELSE args.maxValue

C20_ExecuteDevelopment ==
    (/\ fn.op = "executeDevelopment"
     /\ fn.done
     /\ fn.args.currentValue \in 0..fn.args.maxValue
     /\ fn.args.randomValue \in 1..5) =>
        IF fn.args.currentGold < 100
        THEN /\ fn.result.success = FALSE
             /\ fn.result.goldSpent = 0
             /\ fn.result.valueIncrease = 0
             /\ fn.result.newValue = fn.args.currentValue
        ELSE /\ fn.result.success = TRUE
             /\ fn.result.goldSpent = 100
             /\ fn.result.newValue = claimedNewValue(fn.args)
             /\ fn.result.newValue <= fn.args.maxValue
             /\ fn.result.valueIncrease = fn.result.newValue - fn.args.currentValue
             /\ fn.result.valueIncrease >= 0
             /\ fn.result.valueIncrease <= (fn.args.executorPol \div 5) + 5

\* a development clamped at the maximum
C20_Witness ==
    /\ fn.op = "executeDevelopment"
    /\ fn.done
    /\ fn.args.currentGold = 100
    /\ fn.args.currentValue = 998
    /\ fn.args.executorPol = 23
    /\ fn.result.newValue = 999
    /\ fn.result.valueIncrease = 1

(***************************************************************************)
(* C21: executeRecruitment computes soldiers = lead*10 + cha*5, goldCost = *)
(* 2*soldiers, populationCost = soldiers and checks gold before            *)
(* population: with gold < goldCost it fails with the insufficient-gold    *)
(* error even when the population is insufficient too; else with           *)
(* population < populationCost it fails with the insufficient-population   *)
(* error; a failure reports zero soldiers, gold, population and loyalty    *)
(* decrease; a success reports soldiersGained = soldiers, goldSpent =      *)
(* goldCost, populationSpent = populationCost and loyaltyDecrease =        *)
(* max(1, 5 - floor(cha/20)).                                              *)
(***************************************************************************)
claimedSoldiers(args) == args.executorLead * 10 + args.executorCha * 5

claimedLoyaltyDecrease(cha) ==
    IF 5 - (cha \div 20) >= 1 THEN 5 - (cha \div 20) ELSE 1

nothingRecruited(result) ==
    /\ result.success = FALSE
    /\ result.soldiersGained = 0
    /\ result.goldSpent = 0
    /\ result.populationSpent = 0
    /\ result.loyaltyDecrease = 0

C21_ExecuteRecruitment ==
    (fn.op = "executeRecruitment" /\ fn.done) =>
        IF fn.args.cityResources.gold < 2 * claimedSoldiers(fn.args)
        THEN nothingRecruited(fn.result) /\ fn.result.error = "InsufficientGold"
        ELSE IF fn.args.cityResources.population < claimedSoldiers(fn.args)
        THEN nothingRecruited(fn.result)
             /\ fn.result.error = "InsufficientPopulation"
        ELSE /\ fn.result.success = TRUE
             /\ fn.result.error = "none"
             /\ fn.result.soldiersGained = claimedSoldiers(fn.args)
             /\ fn.result.goldSpent = 2 * claimedSoldiers(fn.args)
             /\ fn.result.populationSpent = claimedSoldiers(fn.args)
             /\ fn.result.loyaltyDecrease
                  = claimedLoyaltyDecrease(fn.args.executorCha)

\* gold and population both one short of the cost of 1100 soldiers
C21_Witness ==
    /\ fn.op = "executeRecruitment"
    /\ fn.done
    /\ fn.args.executorLead = 90
    /\ fn.args.executorCha = 40
    /\ fn.args.cityResources = [gold |-> 2199, population |-> 1099]
    /\ fn.result.error = "InsufficientGold"

(***************************************************************************)
(* C22: evaluateThreat(city) lists a directly connected city as a threat   *)
(* only if its owner differs from the owner of the evaluated city and the  *)
(* faction of the evaluated city has diplomacy hostile toward that owner;  *)
(* cities of the same faction are never listed; each listed threat has     *)
(* threatScore = troops/1000 + 2, troops being the sum of the troops of    *)
(* the living generals stationed there; the list is sorted by threatScore  *)
(* in descending order.                                                    *)
(***************************************************************************)
RECURSIVE livingTroops(_, _)
livingTroops(stationed, generals) ==
    IF stationed = <<>> THEN 0
    ELSE (IF generals[Head(stationed)].isAlive
          THEN generals[Head(stationed)].troops ELSE 0)
         + livingTroops(Tail(stationed), generals)

isConnected(c, otherId) ==
    \E i \in 1..Len(c.connectedCities) : c.connectedCities[i] = otherId

\* threatScore is kept times 1000
threatsAsClaimed(cityId, gs, threats) ==
    /\ \A i \in 1..Len(threats) :
          /\ isConnected(gs.cities[cityId], threats[i].cityId)
          /\ gs.cities[threats[i].cityId].faction # gs.cities[cityId].faction
          /\ gs.factions[gs.cities[cityId].faction]
                .diplomacy[gs.cities[threats[i].cityId].faction] = "hostile"
          /\ threats[i].troops
               = livingTroops(gs.cities[threats[i].cityId].stationedGenerals,
                              gs.generals)
          /\ threats[i].threatScore = threats[i].troops + 2 * 1000
    /\ \A i \in 1..Len(threats) : \A j \in 1..Len(threats) :
          i < j => threats[i].threatScore >= threats[j].threatScore

C22_EvaluateThreat ==
    \A cityId \in DOMAIN store.cities :
        threatsAsClaimed(cityId, store, evaluateThreat(cityId, store))

\* a city with two threats listed against the order of its connectedCities,
\* and a city with a neighbour of another, not hostile faction and one threat
C22_Witness ==
    /\ \E cityId \in DOMAIN store.cities :
          /\ Len(evaluateThreat(cityId, store)) = 2
          /\ evaluateThreat(cityId, store)[1].threatScore
               > evaluateThreat(cityId, store)[2].threatScore
          /\ \E i, j \in 1..Len(store.cities[cityId].connectedCities) :
                /\ i < j
                /\ store.cities[cityId].connectedCities[j]
                     = evaluateThreat(cityId, store)[1].cityId
                /\ store.cities[cityId].connectedCities[i]
                     = evaluateThreat(cityId, store)[2].cityId
    /\ \E cityId \in DOMAIN store.cities :
          /\ Len(evaluateThreat(cityId, store)) = 1
          /\ \E i \in 1..Len(store.cities[cityId].connectedCities) :
                LET other == store.cities[store.cities[cityId].connectedCities[i]]
                IN /\ other.faction # store.cities[cityId].faction
                   /\ store.factions[store.cities[cityId].faction]
                         .diplomacy[other.faction] # "hostile"
                   /\ livingTroops(other.stationedGenerals, store.generals) > 0
    /\ turns > 0

(***************************************************************************)
(* C23: the event log is stored in append order and is append-only: the    *)
(* events produced by a turn end are placed after all events already in    *)
(* eventLog, existing entries keep their relative order and content, and   *)
(* no turn end removes an entry.                                           *)
(***************************************************************************)
\* the events of the completed call as the narrative phase handed them on
processedOf(c) == processNarrativePhase(c.seen.events, c.narrated)

C23_AppendOrder ==
    call.status = "done" =>
        /\ call.returned.eventLog
             = call.seen.input.eventLog \o processedOf(call)
        /\ store.eventLog = call.seen.input.eventLog \o processedOf(call)

\* C23 (as the code has it): the events produced by a turn end are placed
\* before all events already in eventLog (newest first, the order the news
\* panel shows them in); the entries already there follow in their former
\* order with their former content, and none is removed.
C23_NewestFirst ==
    call.status = "done" =>
        /\ call.returned.eventLog
             = processedOf(call) \o call.seen.input.eventLog
        /\ store.eventLog = processedOf(call) \o call.seen.input.eventLog
        /\ call.saved.eventLog = call.returned.eventLog

\* a turn end that produced events, on a log that held other events
C23_Witness ==
    /\ call.status = "done"
    /\ Len(call.seen.events) > 0
    /\ Len(call.seen.input.eventLog) > 0
    /\ store.eventLog # call.seen.input.eventLog \o processedOf(call)
    /\ Len(store.eventLog)
         = Len(call.seen.input.eventLog) + Len(call.seen.events)

(***************************************************************************)
(* C24: starting from a state in which every general is listed in the      *)
(* stationedGenerals of exactly one city and that city is its currentCity, *)
(* the same holds after executeAITurns followed by applyAIStateUpdates,    *)
(* for every order in which the factions are processed and every           *)
(* combination of battle outcomes, including the case where a faction's    *)
(* attack source city is captured by another faction earlier in the same   *)
(* turn.                                                                   *)
(***************************************************************************)
\* the places (city, index) at which a general is listed
placesOf(gs, generalId) ==
    {p \in (DOMAIN gs.cities) \X (1..(Cardinality(DOMAIN gs.generals) + 1)) :
        /\ p[2] <= Len(gs.cities[p[1]].stationedGenerals)
        /\ gs.cities[p[1]].stationedGenerals[p[2]] = generalId}

stationedOnce(gs) ==
    \A generalId \in DOMAIN gs.generals :
        /\ Cardinality(placesOf(gs, generalId)) = 1
        /\ generalId \in stationedIn(gs, gs.generals[generalId].currentCity)

C24_StationedOnce ==
    call.status # "none" =>
        (stationedOnce(call.seen.input) => stationedOnce(call.seen.afterAI))

\* the loaded games station every general once
C24_InitiallyOnce == turns = 0 => stationedOnce(store)

(***************************************************************************)
(* C25: after every completed AI turn, every general stationed in a city   *)
(* belongs to the faction that owns the city, so that calculateCityTroops, *)
(* getStrongestGeneral and getBestPoliticsGeneral only ever count and      *)
(* select generals of the owning faction; this holds also when the         *)
(* captured city was the previous owner's last city.                       *)
(***************************************************************************)
ownersGenerals(gs) ==
    \A cityId \in DOMAIN gs.cities :
        \A generalId \in stationedIn(gs, cityId) :
            gs.generals[generalId].faction = gs.cities[cityId].faction

C25_OwnersGenerals ==
    call.status # "none" =>
        (ownersGenerals(call.seen.input) => ownersGenerals(call.seen.afterAI))

\* the loaded games station only generals of the owner
C25_InitiallyOwners == turns = 0 => ownersGenerals(store)

(***************************************************************************)
(* C26: every attack that makeDecision queues is resolved by               *)
(* executeAIAttack in the same turn with the same strength it was planned  *)
(* with: since it was queued with successProbability >= 0.6, i.e. attack   *)
(* power / defense power >= 1.2, executeAIAttack computes a power ratio    *)
(* >= 1.2 for it and therefore never classifies it as an automatic loss    *)
(* (ratio < 0.67).                                                         *)
(***************************************************************************)
\* the attack power evaluateAttackTarget planned the action with, times 1000
plannedAttackPower(action, gs) ==
    attackPowerWith(calculateCityTroops(gs.cities[action.fromCity], gs.generals),
                    getStrongestGeneral(gs.cities[action.fromCity], gs.generals),
                    gs.generals)

\* the attacks queued for the turn the last call resolved
queuedAttacks(gs) ==
    {queuedIn(gs)[i].action :
        i \in {k \in 1..Len(queuedIn(gs)) : queuedIn(gs)[k].action.type = "attack"}}

resolvedAsPlanned(action, gs) ==
    /\ attackPowers(action, gs)[1] = plannedAttackPower(action, gs)
    /\ CmpFrac(attackPowers(action, gs)[1], attackPowers(action, gs)[2], 12, 10) >= 0
    /\ attackZoneOf(attackPowers(action, gs)) # "lose"

C26_ResolvedAsPlanned ==
    call.status # "none" =>
        \A action \in queuedAttacks(call.seen.input) :
            resolvedAsPlanned(action, call.seen.input)

\* the queued attacks were planned with a power ratio of at least 1.2
C26_PlannedRatio ==
    call.status # "none" =>
        \A action \in queuedAttacks(call.seen.input) :
            CmpFrac(plannedAttackPower(action, call.seen.input),
                    attackPowers(action, call.seen.input)[2], 12, 10) >= 0

(***************************************************************************)
(* C27: starting from a consistent state with non-negative resources,      *)
(* after any number of completed turn ends every city's gold and           *)
(* population are >= 0, commerce and agriculture are in 0..999 and loyalty *)
(* is in 0..100: each city receives at most one AI action per turn and     *)
(* every AI recruit or develop is applied only if the city could pay for   *)
(* it in the pre-turn state.                                               *)
(***************************************************************************)
resourcesInRange(gs) ==
    \A cityId \in DOMAIN gs.cities :
        /\ gs.cities[cityId].resources.gold >= 0
        /\ gs.cities[cityId].resources.population >= 0
        /\ gs.cities[cityId].resources.commerce \in 0..999
        /\ gs.cities[cityId].resources.agriculture \in 0..999
        /\ gs.cities[cityId].resources.loyalty \in 0..100

\* the city an update is applied to
cityOfUpdate(update) ==
    IF update.type = "attack" THEN update.fromCityId ELSE update.cityId

oneActionPerCity(updates) ==
    \A i, j \in 1..Len(updates) :
        cityOfUpdate(updates[i]) = cityOfUpdate(updates[j]) => i = j

\* the city could pay for the update in the state gs
couldPay(update, gs) ==
    CASE update.type = "recruit" ->
           /\ gs.cities[update.cityId].resources.gold >= update.value * 2
           /\ gs.cities[update.cityId].resources.population >= update.value
      [] update.type = "develop" ->
           gs.cities[update.cityId].resources.gold >= 100
      [] OTHER -> TRUE

C27_ResourcesInRange ==
    /\ resourcesInRange(store)
    /\ call.status # "none" =>
          /\ resourcesInRange(call.seen.afterAI)
          /\ oneActionPerCity(call.seen.updates)
          /\ \A k \in 1..Len(call.seen.updates) :
                couldPay(call.seen.updates[k], call.seen.input)

\* a second turn end in which a recruit and a develop were applied and
\* changed what their cities hold
C27_Witness ==
    /\ call.status = "done"
    /\ turns = 2
    /\ \E i, j \in 1..Len(call.seen.updates) :
          /\ call.seen.updates[i].type = "recruit"
          /\ call.seen.updates[j].type = "develop"
          /\ call.seen.afterAI.cities[call.seen.updates[i].cityId].resources.gold
                = call.seen.input.cities[call.seen.updates[i].cityId].resources.gold
                  - call.seen.updates[i].value * 2
          /\ call.seen.afterAI.cities[call.seen.updates[j].cityId].resources.gold
                = call.seen.input.cities[call.seen.updates[j].cityId].resources.gold
                  - 100

(***************************************************************************)
(* C28: an AI attack never changes troop counts: applying an attack        *)
(* update, won or lost, leaves the troops of every general (attacker,      *)
(* defenders and all others) unchanged, and a lost attack leaves cities,   *)
(* factions and generals entirely unchanged; the casualties computed by    *)
(* executeAIAttack appear only in the battle event.                        *)
(***************************************************************************)
sameTroops(s, t) ==
    \A generalId \in DOMAIN s.generals :
        t.generals[generalId].troops = s.generals[generalId].troops

C28_TroopsUnchanged ==
    call.status # "none" =>
        \A k \in 1..Len(call.seen.updates) :
            call.seen.updates[k].type = "attack" =>
                /\ sameTroops(beforeUpdate(k), afterUpdate(k))
                /\ call.seen.updates[k].result # "win" =>
                      /\ afterUpdate(k).cities = beforeUpdate(k).cities
                      /\ afterUpdate(k).factions = beforeUpdate(k).factions
                      /\ afterUpdate(k).generals = beforeUpdate(k).generals
                /\ call.seen.events[k].type = "battle"
                /\ call.seen.events[k].data.attackerGeneral
                      = call.seen.updates[k].generalId
                /\ call.seen.events[k].data.result = call.seen.updates[k].result

\* a won and a lost attack of one turn end, both with casualties in the event
C28_Witness ==
    /\ call.status = "done"
    /\ \E i, j \in 1..Len(call.seen.updates) :
          /\ call.seen.updates[i].type = "attack"
          /\ call.seen.updates[j].type = "attack"
          /\ call.seen.updates[i].result = "win"
          /\ call.seen.updates[j].result = "lose"
          /\ call.seen.events[i].data.casualties.attacker > 0
          /\ call.seen.events[i].data.casualties.defender > 0
          /\ call.seen.events[j].data.casualties.attacker > 0
          /\ call.seen.events[j].data.casualties.defender > 0
          /\ afterUpdate(i) # beforeUpdate(i)

(***************************************************************************)
(* C29: the store reducer's DEDUCT_AP and the turn system's                *)
(* deductActionPoints are two implementations of the same operation: for   *)
(* every actionPoints value in 0..3 and every action type (domestic,       *)
(* movement, campaign), the actionPoints after dispatching DEDUCT_AP       *)
(* equals the remainingAP returned by deductActionPoints, including when   *)
(* the cost exceeds the available points.                                  *)
(***************************************************************************)
C29_SameOperation ==
    [][(dispatches' # dispatches /\ rid'.type = "DEDUCT_AP") =>
          store'.actionPoints
            = deductActionPoints(store.actionPoints, rid'.payload).remainingAP]_vars

\* the two agree whenever the points cover the cost
C29_SameWhenCovered ==
    [][(/\ dispatches' # dispatches
        /\ rid'.type = "DEDUCT_AP"
        /\ store.actionPoints >= getAPCost(rid'.payload)) =>
          store'.actionPoints
            = deductActionPoints(store.actionPoints, rid'.payload).remainingAP]_vars

(***************************************************************************)
(* C30: the in-flight flag never stays set: after any endPlayerTurn call   *)
(* has returned, whether it completed normally or a step inside it threw,  *)
(* isCurrentlyProcessing() is false, loading has been signalled off, and   *)
(* the next endPlayerTurn call is processed rather than rejected as a      *)
(* no-op.                                                                  *)
(***************************************************************************)
hasReturned == call.status \in {"done", "threw"}

C30_FlagCleared ==
    /\ [](hasReturned =>
             /\ ~isProcessing
             /\ ~inFlight(isProcessing)
             /\ ~isLoading
             /\ call.loading[Len(call.loading)] = FALSE
             /\ pc = "idle")
    /\ [][hasReturned =>
             /\ rejected' # rejected => ~rejected'.seen
             /\ call' # call =>
                   /\ turns' = turns + 1
                   /\ call'.status \in {"suspended", "done"}
                   /\ call'.seen.input = store]_vars

\* a call that was processed to its end after a call in which a step threw:
\* its input still carries the phase the thrown call left in the store
C30_Witness ==
    /\ call.status = "done"
    /\ turns = 2
    /\ call.seen.input.phase = "narrative"
    /\ call.returned.phase = "player"
    /\ ~rejected.seen

====
